---- MODULE Spec2Model ----
(***************************************************************************)
(* Model of the Steam account checker core (lib/steam-checker.ts):         *)
(* parseTokenFormat, validateJWTToken, extractSteamIdFromToken, the three  *)
(* external lookups with their retry loops, processToken and the batch     *)
(* loop checkSteamAccounts.                                                *)
(*                                                                         *)
(* Strings are sequences of symbols.  A symbol is a one-character string   *)
(* ("-", ".", ";", "=", " ", a digit), the word "steamLoginSecure", a      *)
(* short opaque word ("u", "x"), or a segment name "<..>" standing for a   *)
(* run of base64url characters.  What atob, JSON.parse and the three       *)
(* claim regexes observe of such a segment is given by the table           *)
(* Payload; everything the repository's code does with these observations *)
(* is modelled statement by statement.                                     *)
(***************************************************************************)
EXTENDS Integers, Sequences, FiniteSets, TLC

\* `undefined` for an optional string: a one-symbol sequence no string contains
NONE == << "undefined" >>

\* `undefined` for an optional number (claims are non-negative integers)
NoNum == -1

\* ------------------------------------------------------------------------
\* String primitives (JavaScript String.prototype semantics on sequences)
\* ------------------------------------------------------------------------
Digits == {"0", "1", "2", "3", "4", "5", "6", "7", "8", "9"}

IsDigit(c) == c \in Digits

\* white space as trim() sees it, among the characters of the lines
IsSpace(c) == c \in {" ", "\t", "\r"}

RECURSIVE TrimStart(_)
TrimStart(s) ==
  IF s # << >> /\ IsSpace(Head(s)) THEN TrimStart(Tail(s)) ELSE s

RECURSIVE TrimEnd(_)
TrimEnd(s) ==
  IF s # << >> /\ IsSpace(s[Len(s)]) THEN TrimEnd(SubSeq(s, 1, Len(s) - 1)) ELSE s

\* a trim that leaves trailing white space
TrimStartOnly(s) == TrimStart(s)

\* String.prototype.trim
Trim(s) == TrimEnd(TrimStart(s))

\* s.startsWith(p)
StartsWith(s, p) == Len(s) >= Len(p) /\ SubSeq(s, 1, Len(p)) = p

\* position of the first occurrence of pat in s at or after position from, 0 if none
RECURSIVE IndexFrom(_, _, _)
IndexFrom(s, pat, from) ==
  IF from + Len(pat) - 1 > Len(s) THEN 0
  ELSE IF SubSeq(s, from, from + Len(pat) - 1) = pat THEN from
  ELSE IndexFrom(s, pat, from + 1)

\* s.includes(pat)
Includes(s, pat) == IndexFrom(s, pat, 1) # 0

\* s.split(sep): every piece, cut at each occurrence of sep from left to right
RECURSIVE Split(_, _)
Split(s, sep) ==
  LET k == IndexFrom(s, sep, 1) IN
  IF k = 0 THEN << s >>
  ELSE << SubSeq(s, 1, k - 1) >> \o Split(SubSeq(s, k + Len(sep), Len(s)), sep)

\* s.split(sep, limit): the first `limit` pieces of s.split(sep)
SplitLimit(s, sep, limit) ==
  LET all == Split(s, sep) IN
  IF Len(all) > limit THEN SubSeq(all, 1, limit) ELSE all

\* s.replace(/[^\d]/g, "")
StripNonDigits(s) == SelectSeq(s, IsDigit)

\* s.slice(-n)
SliceLast(s, n) == IF Len(s) <= n THEN s ELSE SubSeq(s, Len(s) - n + 1, Len(s))

\* s.padEnd(n, "0")
RECURSIVE PadEndZero(_, _)
PadEndZero(s, n) == IF Len(s) >= n THEN s ELSE PadEndZero(Append(s, "0"), n)

SteamPrefix == << "7", "6", "5", "6", "1", "1", "9" >>

\* /^7656119\d{10}$/.test(s)
IsCanonicalId(s) ==
  /\ Len(s) = 17
  /\ StartsWith(s, SteamPrefix)
  /\ \A k \in 8..17 : IsDigit(s[k])

\* tokenString.match(/7656119\d{10}/): the first match, NONE if there is none
RECURSIVE MatchSteamId(_, _)
MatchSteamId(s, from) ==
  LET k == IndexFrom(s, SteamPrefix, from) IN
  IF k = 0 \/ k + 16 > Len(s) THEN NONE
  ELSE IF \A j \in (k + 7)..(k + 16) : IsDigit(s[j]) THEN SubSeq(s, k, k + 16)
  ELSE MatchSteamId(s, k + 1)

\* ------------------------------------------------------------------------
\* What the JavaScript built-ins observe of a JWT payload segment
\* ------------------------------------------------------------------------
\* A string of digits, written as a sequence of one-character strings
CanonId  == << "7","6","5","6","1","1","9","8","1","2","3","4","5","6","7","8","9" >>
Noise10  == << "1","2","3","4","5","6","7","8","9","0" >>
Noise12  == << "9","9","1","2","3","4","5","6","7","8","9","0" >>
Short5   == << "1","2","3","4","5" >>
Nine9    == << "7","6","5","6","1","1","9","8","1" >>
Prefix10 == << "7","6","5","6","1","1","9","8","1","2" >>
Long21   == CanonId \o << "0","1","2","3" >>
DashedId == << "7","6","5","6","1","1","9","-","8","1","2","3","4","5","6","7","8","9" >>

\* Clock values and expiration claims, in Unix seconds
NowEarly == 50
NowLate  == 150
ExpPast  == 1
ExpMid   == 100
ExpFar   == 999

\* JSON.parse results: it throws ("fail"), or yields null, a non-object value
\* ("prim") or an object of which the code reads sub, steamid, exp, iat and
\* the username fields
JFail == [t |-> "fail", sub |-> NONE, steamid |-> NONE, exp |-> NoNum, iat |-> NoNum, username |-> NONE]
JNull == [JFail EXCEPT !.t = "null"]
JPrim == [JFail EXCEPT !.t = "prim"]
JObj(sub, exp, iat) == [JFail EXCEPT !.t = "obj", !.sub = sub, !.exp = exp, !.iat = iat]

\* One payload segment: its length mod 4, whether all its characters are
\* base64url characters, JSON.parse of the decoded bytes, JSON.parse of the
\* repaired text, and the captures of the three fallback regexes
Seg(mod4, b64, strict, fixed, subMatch, expMatch, iatMatch) ==
  [mod4 |-> mod4, b64 |-> b64, strict |-> strict, fixed |-> fixed,
   subMatch |-> subMatch, expMatch |-> expMatch, iatMatch |-> iatMatch]

Strict(mod4, obj) == Seg(mod4, TRUE, obj, obj, NONE, NoNum, NoNum)
Repaired(mod4, obj) == Seg(mod4, TRUE, JFail, obj, NONE, NoNum, NoNum)
Broken(mod4, subMatch, expMatch, iatMatch) ==
  Seg(mod4, TRUE, JFail, JFail, subMatch, expMatch, iatMatch)

PayloadNames ==
  { "<valid>", "<expired>", "<noexp>", "<exp0>", "<mid>", "<jsonnoise>", "<jsondashed>",
    "<jsonlong>", "<jsonprefix>", "<fixednoise>",
    "<nosub>", "<emptysub>", "<null>", "<prim>", "<repaired>", "<named>",
    "<rxnoise>", "<rxnoise12>", "<rxshort>", "<rxnine>", "<rxdashed>", "<rxprefix>", "<rxlong>", "<rxcanon>",
    "<rxexpired>", "<rxexponly>", "<rxexp0>", "<garbage>", "<badb64>", "<mod1>" }

Payload(name) ==
  CASE name = "<valid>"      -> Strict(2, JObj(CanonId, ExpFar, 10))
    [] name = "<expired>"    -> Strict(2, JObj(CanonId, ExpPast, 0))
    [] name = "<noexp>"      -> Strict(3, JObj(CanonId, NoNum, NoNum))
    [] name = "<exp0>"       -> Strict(0, JObj(CanonId, 0, NoNum))
    [] name = "<mid>"        -> Strict(0, JObj(CanonId, ExpMid, NoNum))
    [] name = "<jsonnoise>"  -> Strict(2, JObj(Noise10, ExpFar, NoNum))
    [] name = "<jsondashed>" -> Strict(3, JObj(DashedId, ExpFar, NoNum))
    [] name = "<jsonlong>"   -> Strict(2, JObj(Long21, ExpFar, NoNum))
    [] name = "<jsonprefix>" -> Strict(2, JObj(Prefix10, ExpMid, NoNum))
    [] name = "<nosub>"      -> Strict(2, JObj(NONE, ExpPast, NoNum))
    [] name = "<emptysub>"   -> Strict(2, JObj(<< >>, NoNum, NoNum))
    [] name = "<null>"       -> Strict(0, JNull)
    [] name = "<prim>"       -> Strict(0, JPrim)
    [] name = "<repaired>"   -> Repaired(2, JObj(CanonId, ExpFar, NoNum))
    [] name = "<fixednoise>" -> Repaired(3, JObj(Noise12, ExpFar, NoNum))
    [] name = "<named>"      -> Strict(2, [JObj(CanonId, ExpFar, NoNum) EXCEPT !.username = << "b", "o", "b" >>])
    [] name = "<rxnoise>"    -> Broken(2, Noise10, ExpFar, 10)
    [] name = "<rxnoise12>"  -> Broken(3, Noise12, NoNum, NoNum)
    [] name = "<rxshort>"    -> Broken(2, Short5, ExpFar, NoNum)
    [] name = "<rxnine>"     -> Broken(2, Nine9, NoNum, NoNum)
    [] name = "<rxdashed>"   -> Broken(3, DashedId, ExpPast, NoNum)
    [] name = "<rxprefix>"   -> Broken(0, Prefix10, ExpFar, NoNum)
    [] name = "<rxlong>"     -> Broken(2, Long21, NoNum, NoNum)
    [] name = "<rxcanon>"    -> Broken(3, CanonId, ExpMid, NoNum)
    [] name = "<rxexpired>"  -> Broken(2, Noise10, ExpPast, NoNum)
    [] name = "<rxexponly>"  -> Broken(2, NONE, ExpMid, NoNum)
    [] name = "<rxexp0>"     -> Broken(2, CanonId, 0, NoNum)
    [] name = "<garbage>"    -> Broken(2, NONE, NoNum, NoNum)
    [] name = "<badb64>"     -> Seg(2, FALSE, JFail, JFail, NONE, NoNum, NoNum)
    [] name = "<mod1>"       -> Strict(1, JObj(CanonId, ExpFar, NoNum))

\* Characters of the base64url alphabet among the one-character symbols
Base64Chars == Digits \cup {"-", "_", "u", "x", "h", "s"}

\* A segment that is one payload name is that payload; any other run of
\* symbols is text whose decoded bytes are no JSON and hold no claim
SegmentOf(part) ==
  IF Len(part) = 1 /\ part[1] \in PayloadNames THEN Payload(part[1])
  ELSE Seg(Len(part) % 4, \A k \in 1..Len(part) : part[k] \in Base64Chars,
           JFail, JFail, NONE, NoNum, NoNum)

\* ------------------------------------------------------------------------
\* validateJWTToken
\* ------------------------------------------------------------------------
NoError == "undefined"

\* `null`: processToken did not call the decoder
NullValidation ==
  [null |-> TRUE, is_valid |-> FALSE, is_expired |-> FALSE, steam_id |-> NONE,
   expires_at |-> NoNum, issued_at |-> NoNum, error |-> NoError, path |-> "none"]

\* the `validation` object as constructed at the top of validateJWTToken
FreshValidation == [NullValidation EXCEPT !.null = FALSE]

\* atob of the payload padded with "=" up to a multiple of 4
AtobPadded(seg) == seg.b64 /\ seg.mod4 # 1

\* the repair of a sub capture without the re-prefixing step
ReconcileSubNoPrefix(sub) ==
  LET d0 == StripNonDigits(sub)
  IN IF Len(d0) < 10 THEN d0
     ELSE IF Len(d0) > 17 THEN SubSeq(d0, 1, 17)
     ELSE IF Len(d0) < 17 /\ StartsWith(d0, SteamPrefix) THEN PadEndZero(d0, 17)
     ELSE d0

\* the repair of a sub capture without the zero padding
ReconcileSubNoPad(sub) ==
  LET d0 == StripNonDigits(sub)
      d1 == IF Len(d0) >= 10 /\ ~StartsWith(d0, SteamPrefix)
            THEN SteamPrefix \o SliceLast(d0, 10) ELSE d0
  IN IF Len(d0) >= 10 /\ Len(d1) > 17 THEN SubSeq(d1, 1, 17) ELSE d1

\* the regex-extraction fallback's repair of a sub capture
ReconcileSub(sub) ==
  LET d0 == StripNonDigits(sub)
      d1 == IF Len(d0) >= 10 /\ ~StartsWith(d0, SteamPrefix)
            THEN SteamPrefix \o SliceLast(d0, 10) ELSE d0
      d2 == IF Len(d0) < 10 THEN d0
            ELSE IF Len(d1) > 17 THEN SubSeq(d1, 1, 17)
            ELSE IF Len(d1) < 17 /\ StartsWith(d1, SteamPrefix) THEN PadEndZero(d1, 17)
            ELSE d1
  IN d2

\* payloadData built by the regex-extraction fallback from the captures
RegexClaims(seg) ==
  LET id == IF seg.subMatch # NONE THEN ReconcileSub(seg.subMatch) ELSE NONE
  IN JObj(IF id # NONE /\ IsCanonicalId(id) THEN id ELSE NONE, seg.expMatch, seg.iatMatch)

\* the error the fallback leaves on `validation` before the claims are read
RegexError(seg) ==
  IF seg.subMatch # NONE /\ ~IsCanonicalId(ReconcileSub(seg.subMatch))
  THEN "Invalid Steam ID format in JWT" ELSE NoError

\* a claim value is truthy: neither undefined, nor "" (string), nor 0 (number)
TruthyStr(v) == v # NONE /\ v # << >>
TruthyNum(n) == n # NoNum /\ n # 0

\* the steam_id check without its length test
AcceptSteamIdAnyLength(clean) == StartsWith(clean, SteamPrefix)

\* the steam_id check applied to payloadData.sub whichever path produced it
AcceptSteamId(clean) == IsCanonicalId(clean) /\ Len(clean) = 17

\* is_expired as computed from a truthy exp claim and the clock
ExpiredAt(now, exp) == now > exp

\* the final if / else-if with the is_valid reset left out
ExpiryOverrideErrorOnly(v) ==
  IF v.is_expired
  THEN [v EXCEPT !.error = "Token has expired"]
  ELSE IF v.steam_id = NONE
  THEN [v EXCEPT !.error = "No valid Steam ID found in token"]
  ELSE v

\* the final if / else-if with the error of an expired token left out
ExpiryOverrideNoMessage(v) ==
  IF v.is_expired
  THEN [v EXCEPT !.is_valid = FALSE]
  ELSE IF v.steam_id = NONE
  THEN [v EXCEPT !.error = "No valid Steam ID found in token"]
  ELSE v

\* the final if / else-if of validateJWTToken
ExpiryOverride(v) ==
  IF v.is_expired
  THEN [v EXCEPT !.error = "Token has expired", !.is_valid = FALSE]
  ELSE IF v.steam_id = NONE
  THEN [v EXCEPT !.error = "No valid Steam ID found in token"]
  ELSE v

\* the tail of validateJWTToken: claims -> validation
ReadClaims(v0, claims, path, now) ==
  LET clean == StripNonDigits(claims.sub)
      v1 == IF TruthyStr(claims.sub)
            THEN IF AcceptSteamId(clean)
                 THEN [v0 EXCEPT !.steam_id = clean]
                 ELSE [v0 EXCEPT !.error = "Invalid Steam ID format in JWT"]
            ELSE [v0 EXCEPT !.error = "No Steam ID found in JWT"]
      v2 == IF TruthyNum(claims.exp)
            THEN [v1 EXCEPT !.expires_at = claims.exp,
                            !.is_expired = ExpiredAt(now, claims.exp)]
            ELSE v1
      v3 == IF TruthyNum(claims.iat) THEN [v2 EXCEPT !.issued_at = claims.iat] ELSE v2
      v4 == [v3 EXCEPT !.is_valid = (v3.steam_id # NONE), !.path = path]
  IN ExpiryOverride(v4)

\* the segment count test accepting any credential with a payload segment
WrongPartsTooFew(parts) == Len(parts) < 2

\* parts.length !== 3
WrongParts(parts) == Len(parts) # 3

validateJWTToken(jwtToken, now) ==
  LET parts == Split(jwtToken, << "." >>)
      seg   == SegmentOf(parts[2])
      v     == FreshValidation
      thrown == [v EXCEPT !.error = "JWT payload decoding error"]
  IN IF WrongParts(parts)
     THEN [v EXCEPT !.error = "Invalid JWT format - wrong number of parts"]
     ELSE IF ~AtobPadded(seg) THEN thrown
     ELSE IF seg.strict.t # "fail"
     THEN IF seg.strict.t = "null" THEN thrown
          ELSE ReadClaims(v, seg.strict, "strict", now)
     ELSE IF seg.fixed.t # "fail"
     THEN IF seg.fixed.t = "null" THEN thrown
          ELSE ReadClaims(v, seg.fixed, "repaired", now)
     ELSE IF seg.subMatch # NONE \/ seg.expMatch # NoNum
     THEN ReadClaims([v EXCEPT !.error = RegexError(seg)], RegexClaims(seg), "regex", now)
     ELSE [v EXCEPT !.error = "JWT payload parsing failed"]

\* ------------------------------------------------------------------------
\* parseTokenFormat and its helpers
\* ------------------------------------------------------------------------
Delim == << "-", "-", "-", "-" >>
CookieKey == << "steamLoginSecure", "=" >>

\* atob of the payload with "=".repeat(4 - length % 4) appended
AtobRepeat(seg) == seg.b64 /\ seg.mod4 \in {2, 3}

extractUsernameFromJWT(jwtToken) ==
  LET parts == Split(jwtToken, << "." >>)
      seg   == SegmentOf(parts[2])
  IN IF Len(parts) >= 2 /\ AtobRepeat(seg) /\ seg.strict.t \in {"obj", "prim"}
        /\ TruthyStr(seg.strict.username)
     THEN seg.strict.username ELSE NONE

\* the capture of /steamLoginSecure=([^;]+)/, NONE when there is no match
RECURSIVE MatchCookie(_, _)
MatchCookie(s, from) ==
  LET k == IndexFrom(s, CookieKey, from)
      b == k + Len(CookieKey)
      semi == IndexFrom(s, << ";" >>, b)
  IN IF k = 0 THEN NONE
     ELSE IF b <= Len(s) /\ s[b] # ";"
     THEN SubSeq(s, b, IF semi = 0 THEN Len(s) ELSE semi - 1)
     ELSE MatchCookie(s, k + 1)

\* const [key, value] = trimmedPart.split("=", 2), stored trimmed
CookiePair(part) ==
  LET kv == SplitLimit(part, << "=" >>, 2) IN << Trim(kv[1]), Trim(kv[2]) >>

RECURSIVE CookiesOf(_, _)
CookiesOf(parts, cookies) ==
  IF parts = << >> THEN cookies
  ELSE LET trimmedPart == Trim(Head(parts))
           next == IF Includes(trimmedPart, << "=" >>)
                   THEN [c \in {CookiePair(trimmedPart)[1]} |-> CookiePair(trimmedPart)[2]] @@ cookies
                   ELSE cookies
       IN CookiesOf(Tail(parts), next)

NoCookies == [c \in {} |-> << >>]

parseCookiesFromLine(cookieLine) ==
  IF cookieLine = << >> THEN NoCookies
  ELSE CookiesOf(Split(Trim(cookieLine), << ";" >>), NoCookies)

\* `pattern` records which branch returned
TokenInfo(username, jwt_token, cookies, raw_token, pattern) ==
  [username |-> username, jwt_token |-> jwt_token, cookies |-> cookies,
   raw_token |-> raw_token, pattern |-> pattern]

SecureCookie(jwt) == [c \in {<< "steamLoginSecure" >>} |-> jwt]

\* the patterns tried in the order steamLoginSecure=, delimiter, three segments
parseTokenFormatCookieFirst(tokenString) ==
  LET parts == SplitLimit(tokenString, Delim, 2)
      match == MatchCookie(tokenString, 1)
  IN IF Includes(tokenString, CookieKey) /\ match # NONE
     THEN TokenInfo(extractUsernameFromJWT(Trim(match)), Trim(match),
                    SecureCookie(Trim(match)), tokenString, "cookie")
     ELSE IF Includes(tokenString, Delim) /\ Len(parts) = 2
     THEN TokenInfo(Trim(parts[1]), Trim(parts[2]), SecureCookie(Trim(parts[2])),
                    tokenString, "delimiter")
     ELSE IF Len(Split(tokenString, << "." >>)) = 3
     THEN TokenInfo(extractUsernameFromJWT(tokenString), Trim(tokenString),
                    SecureCookie(Trim(tokenString)), tokenString, "bare")
     ELSE TokenInfo(NONE, NONE, parseCookiesFromLine(tokenString), tokenString, "fallback")

parseTokenFormat(tokenString) ==
  LET parts == SplitLimit(tokenString, Delim, 2)
      match == MatchCookie(tokenString, 1)
  IN IF Includes(tokenString, Delim) /\ Len(parts) = 2
     THEN TokenInfo(Trim(parts[1]), Trim(parts[2]), SecureCookie(Trim(parts[2])),
                    tokenString, "delimiter")
     ELSE IF Includes(tokenString, CookieKey) /\ match # NONE
     THEN TokenInfo(extractUsernameFromJWT(Trim(match)), Trim(match),
                    SecureCookie(Trim(match)), tokenString, "cookie")
     ELSE IF Len(Split(tokenString, << "." >>)) = 3
     THEN TokenInfo(extractUsernameFromJWT(tokenString), Trim(tokenString),
                    SecureCookie(Trim(tokenString)), tokenString, "bare")
     ELSE TokenInfo(NONE, NONE, parseCookiesFromLine(tokenString), tokenString, "fallback")

\* ------------------------------------------------------------------------
\* extractSteamIdFromToken
\* ------------------------------------------------------------------------
\* payloadData.sub || payloadData.steamid
SubOrSteamid(obj) == IF TruthyStr(obj.sub) THEN obj.sub ELSE obj.steamid

\* the id read from the decoded second segment, NONE if that path yields none
IdFromPayload(tokenString) ==
  LET parts == Split(tokenString, << "." >>)
      seg   == SegmentOf(parts[2])
      id    == SubOrSteamid(seg.strict)
      clean == StripNonDigits(id)
  IN IF Includes(tokenString, << "." >>) /\ Len(parts) >= 2 /\ AtobRepeat(seg)
        /\ seg.strict.t \in {"obj", "prim"} /\ TruthyStr(id) /\ AcceptSteamId(clean)
     THEN clean ELSE NONE

extractSteamIdFromToken(tokenString) ==
  IF IdFromPayload(tokenString) # NONE THEN IdFromPayload(tokenString)
  ELSE MatchSteamId(tokenString, 1)

\* ------------------------------------------------------------------------
\* External lookups: getUserProfile, getBanInfo, getInventoryInfo
\* ------------------------------------------------------------------------
maxRetries == 2

Word(w) == << w >>

\* !steamId || steamId === "Unknown" || steamId === "Error"
IsSentinelId(steamId) ==
  steamId = << >> \/ steamId = Word("Unknown") \/ steamId = Word("Error")

ProfilesUrl(steamId) == << "https://steamcommunity.com/profiles/" >> \o steamId

\* `malformed`: time_created is a value that cannot be converted to a number
\* (comparing it with 0 raises a TypeError)
UserProfile(username, real_name, profile_url, time_created, last_logoff, malformed) ==
  [username |-> username, real_name |-> real_name, avatar |-> << >>,
   profile_url |-> profile_url, time_created |-> time_created,
   last_logoff |-> last_logoff, persona_state |-> 0, malformed |-> malformed]

\* the structure getUserProfile returns without a request
EmptyProfile == UserProfile(Word("Unknown"), Word("Not specified"), << >>, 0, 0, FALSE)

\* the give-up structure with an empty username instead of "Unknown"
UnknownProfileBlankName(steamId) ==
  UserProfile(<< >>, Word("Not specified"), ProfilesUrl(steamId), 0, 0, FALSE)

\* the structure getUserProfile returns after the last failed attempt
UnknownProfile(steamId) ==
  UserProfile(Word("Unknown"), Word("Not specified"), ProfilesUrl(steamId), 0, 0, FALSE)

CreatedAt == 7
LogoffAt == 9

\* bodies the profile endpoint can answer with: a full profile, a name
\* without dates, no data, inconsistent data (no name, a negative creation
\* time), a creation time that is no number
ProfileBodies(steamId) ==
  { UserProfile(Word("alice"), Word("Al"), ProfilesUrl(steamId), CreatedAt, LogoffAt, FALSE),
    UserProfile(Word("alice"), Word("Not specified"), ProfilesUrl(steamId), 0, 0, FALSE),
    UnknownProfile(steamId),
    UserProfile(Word("Unknown"), Word("Not specified"), ProfilesUrl(steamId), -1, 0, FALSE),
    UserProfile(Word("alice"), Word("Al"), ProfilesUrl(steamId), 0, 0, TRUE) }

BanInfo(vac, community, economy, nvac, days, ngame, steamId) ==
  [VACBanned |-> vac, CommunityBanned |-> community, EconomyBan |-> economy,
   NumberOfVACBans |-> nvac, DaysSinceLastBan |-> days, NumberOfGameBans |-> ngame,
   SteamID |-> steamId]

\* the structure getBanInfo returns without a request or after the last failure
NoBans(steamId) == BanInfo(FALSE, FALSE, "none", 0, 0, 0, steamId)

BanBodies(steamId) ==
  { NoBans(steamId),
    BanInfo(TRUE, FALSE, "none", 1, 3, 0, steamId),
    BanInfo(FALSE, TRUE, "banned", 0, 0, 1, steamId) }

InventoryInfo(value, count, private, error) ==
  [inventoryValue |-> value, itemCount |-> count, isPrivate |-> private, error |-> error]

\* `undefined`: no inventory was fetched
UndefinedInventory == InventoryInfo(0, 0, FALSE, "undefined")

\* what getInventoryInfo makes of an OK response body
InventoryBodies ==
  { InventoryInfo(5, 2, FALSE, "null"),
    InventoryInfo(0, 0, TRUE, "Private inventory"),
    InventoryInfo(0, 0, FALSE, "Steam inventory error") }

\* the structure getInventoryInfo returns after the last failed attempt
FailedInventory == InventoryInfo(0, 0, FALSE, "Inventory API request failed")

\* One pass of a retry loop body on a response that is not a usable body:
\* HTTP 429, another non-OK status, a body with an error field, a rejected
\* fetch.  TRUE: `continue` with the next attempt; FALSE: the loop ends.
FailureKinds == {"429", "notok", "errbody", "netexc"}

Retries(attempt) == attempt < maxRetries

\* ------------------------------------------------------------------------
\* processToken: classification and the record
\* ------------------------------------------------------------------------
Formatted(text, t) == [text |-> text, t |-> t]

formatTimestamp(timestamp) ==
  IF timestamp # NoNum /\ timestamp # 0 /\ timestamp > 0
  THEN Formatted("date", timestamp) ELSE Formatted("Never", 0)

\* the test without its username alternative
hasValidProfileCreatedOnly(userProfile) == userProfile.time_created > 0

\* the test asking for both a creation time and a username
hasValidProfileBoth(userProfile) ==
  userProfile.time_created > 0 /\ userProfile.username # Word("Unknown")

hasValidProfile(userProfile) ==
  userProfile.time_created > 0 \/ userProfile.username # Word("Unknown")

profileNotFound(userProfile) ==
  userProfile.username = Word("Unknown") /\ userProfile.time_created = 0

\* the cascade testing is_valid before is_expired
StatusOfValidityFirst(jwtValidation, steamId, userProfile) ==
  IF ~jwtValidation.null
  THEN IF ~jwtValidation.is_valid THEN "Invalid JWT"
       ELSE IF jwtValidation.is_expired THEN "Expired"
       ELSE IF profileNotFound(userProfile) THEN "Account Not Found"
       ELSE IF ~hasValidProfile(userProfile) THEN "Limited Profile"
       ELSE "Valid"
  ELSE IF steamId = << >> THEN "Invalid"
  ELSE IF ~hasValidProfile(userProfile) THEN "Account Not Found"
  ELSE "Valid"

\* the cascade letting a real profile outweigh a credential that is not valid
StatusOfTrustingProfile(jwtValidation, steamId, userProfile) ==
  IF ~jwtValidation.null
  THEN IF jwtValidation.is_expired THEN "Expired"
       ELSE IF ~jwtValidation.is_valid /\ ~hasValidProfile(userProfile) THEN "Invalid JWT"
       ELSE IF profileNotFound(userProfile) THEN "Account Not Found"
       ELSE IF ~hasValidProfile(userProfile) THEN "Limited Profile"
       ELSE "Valid"
  ELSE IF steamId = << >> THEN "Invalid"
  ELSE IF ~hasValidProfile(userProfile) THEN "Account Not Found"
  ELSE "Valid"

StatusOf(jwtValidation, steamId, userProfile) ==
  IF ~jwtValidation.null
  THEN IF jwtValidation.is_expired THEN "Expired"
       ELSE IF ~jwtValidation.is_valid THEN "Invalid JWT"
       ELSE IF profileNotFound(userProfile) THEN "Account Not Found"
       ELSE IF ~hasValidProfile(userProfile) THEN "Limited Profile"
       ELSE "Valid"
  ELSE IF steamId = << >> THEN "Invalid"
  ELSE IF ~hasValidProfile(userProfile) THEN "Account Not Found"
  ELSE "Valid"

\* a || b on optional strings
OrElse(a, b) == IF TruthyStr(a) THEN a ELSE b

Account(accountNumber, token, tokenInfo, jwtValidation, steamId, userProfile, banInfo, inventoryInfo) ==
  [accountNumber |-> accountNumber,
   status |-> StatusOf(jwtValidation, steamId, userProfile),
   steamId |-> OrElse(steamId, Word("Unknown")),
   username |-> OrElse(tokenInfo.username, userProfile.username),
   realName |-> userProfile.real_name,
   vacBanned |-> banInfo.VACBanned,
   communityBanned |-> banInfo.CommunityBanned,
   economyBanned |-> banInfo.EconomyBan,
   vacCount |-> banInfo.NumberOfVACBans,
   accountCreated |-> formatTimestamp(userProfile.time_created),
   lastOnline |-> formatTimestamp(userProfile.last_logoff),
   expires |-> IF TruthyNum(jwtValidation.expires_at)
               THEN formatTimestamp(jwtValidation.expires_at) ELSE Formatted("Unknown", 0),
   jwtValid |-> jwtValidation.is_valid,
   jwtExpired |-> jwtValidation.is_expired,
   profileUrl |-> userProfile.profile_url,
   daysSinceLastBan |-> banInfo.DaysSinceLastBan,
   gameBans |-> banInfo.NumberOfGameBans,
   personaState |-> userProfile.persona_state,
   originalToken |-> Trim(token),
   inventory |-> inventoryInfo]

\* the record the catch block of checkSteamAccounts pushes
ErrorAccount(accountNumber, token) ==
  [accountNumber |-> accountNumber,
   status |-> "Error",
   steamId |-> Word("Error"),
   username |-> Word("Error"),
   realName |-> Word("Error"),
   vacBanned |-> FALSE,
   communityBanned |-> FALSE,
   economyBanned |-> "error",
   vacCount |-> 0,
   accountCreated |-> Formatted("Error", 0),
   lastOnline |-> Formatted("Error", 0),
   expires |-> Formatted("Error", 0),
   jwtValid |-> FALSE,
   jwtExpired |-> FALSE,
   profileUrl |-> << >>,
   daysSinceLastBan |-> 0,
   gameBans |-> 0,
   personaState |-> 0,
   originalToken |-> Trim(token),
   inventory |-> UndefinedInventory]

\* processToken raises: a comparison or formatTimestamp reads time_created
Raises(userProfile) == userProfile.malformed

\* ------------------------------------------------------------------------
\* Inputs
\* ------------------------------------------------------------------------
MaxTokens == 2

Clock == {NowEarly, ExpMid, NowLate}

Jwt(payload) == << "<hdr>", ".", payload, ".", "<sig>" >>

\* input lines of the batches: delimiter, cookie and bare formats, a credential
\* of two segments, an empty credential, cookie text with and without an
\* account id (one with a dot in a cookie value), stray spaces, a cookie
\* whose credential carries no id
Catalogue ==
  << << "u" >> \o Delim \o Jwt("<valid>"),
     << "u" >> \o Delim \o Jwt("<expired>"),
     << "u" >> \o Delim \o << "<hdr>", ".", "<garbage>" >>,
     << "u" >> \o Delim,
     << " " >> \o CookieKey \o CanonId \o << "%7C%7C" >> \o Jwt("<valid>") \o << " " >>,
     << "sessionid", "=", "x", ";", " ", "steamid", "=" >> \o CanonId,
     << "x" >>,
     Jwt("<rxnoise>"),
     Jwt("<nosub>"),
     << "sessionid", "=", "x", ".", "x", ";", " ", "steamid", "=" >> \o CanonId \o << ";" >>,
     CookieKey \o CanonId \o << "%7C%7C" >> \o Jwt("<emptysub>") >>

\* the batch of n lines starting at line a of the catalogue (cyclically)
Window(a, n) == [k \in 1..n |-> Catalogue[((a + k - 2) % Len(Catalogue)) + 1]]

ApiKeys == { << >>, << " " >>, << " ", " " >>, << "k" >> }

\* ------------------------------------------------------------------------
\* State
\* ------------------------------------------------------------------------
VARIABLES
  pc,             \* where checkSteamAccounts stands
  tokens,         \* its arguments
  apiKey,
  checkInventory,
  i,              \* the loop index (0-based)
  accounts,       \* the records pushed so far
  stats,
  progress,       \* the calls onProgress has received: << current, total >>
  fetched,        \* a request was sent to one of the three endpoints
  attempt,        \* the retry loop's attempt number
  cur,            \* processToken's locals for the item in hand
  fn,             \* pure-function runs: the function applied,
  arg,            \*   its argument,
  clock,          \*   Date.now() in seconds,
  result,         \*   and its result
  lookup,         \* one run of a lookup function: its locals and its trace
  server          \* the inventory route: its clock, rateLimitMap, last response

vars == << pc, tokens, apiKey, checkInventory, i, accounts, stats, progress,
           fetched, attempt, cur, fn, arg, clock, result, lookup, server >>

batchVars == << pc, tokens, apiKey, checkInventory, i, accounts, stats, progress,
                fetched, attempt, cur >>

pureVars == << fn, arg, clock, result, lookup, server >>

ZeroStats(total) ==
  [total |-> total, valid |-> 0, invalid |-> 0, expired |-> 0, vac_banned |-> 0,
   community_banned |-> 0, economy_banned |-> 0, account_not_found |-> 0,
   limited_profile |-> 0]

NoItem ==
  [tokenInfo |-> TokenInfo(NONE, NONE, NoCookies, << >>, "none"),
   jwtValidation |-> NullValidation, steamId |-> << >>,
   userProfile |-> EmptyProfile, banInfo |-> NoBans(<< >>),
   inventoryInfo |-> UndefinedInventory,
   exhausted |-> FALSE,     \* getUserProfile gave up after its last attempt
   slept |-> FALSE,         \* the pacing delay has elapsed after the item
   asked |-> FALSE]         \* getInventoryInfo was called for the item

BatchIdle ==
  /\ pc = "idle" /\ tokens = << >> /\ apiKey = << >> /\ checkInventory = FALSE
  /\ i = 0 /\ accounts = << >> /\ stats = ZeroStats(0) /\ progress = << >>
  /\ fetched = FALSE /\ attempt = 0 /\ cur = NoItem

\* ------------------------------------------------------------------------
\* The inventory route's rate limiter (module state of the route)
\* ------------------------------------------------------------------------
windowMs == 60000
maxRequests == 15
blockDuration == 120000

\* client addresses, as read from x-forwarded-for or request.ip
Ips == {"10.0.0.1", "10.0.0.2"}

\* rateLimitMap.get(ip) is undefined
NoEntry == [present |-> FALSE, count |-> 0, resetTime |-> 0, blocked |-> FALSE]

\* the server just started: an empty rateLimitMap, no request answered;
\* passed[ip]: the times of ip's requests of the last minute that were let in;
\* limited: the times at which a request was refused for exceeding the limit
\* and after whose block no request has come yet; waits: the pauses so far
ServerIdle ==
  [now |-> 0, rateLimitMap |-> [ip \in Ips |-> NoEntry],
   passed |-> [ip \in Ips |-> << >>], status |-> 0, ip |-> "none",
   limited |-> {}, waits |-> 0]

\* no lookup function is running on its own
LookupIdle ==
  [fn |-> "none", steamId |-> << >>, attempt |-> 0, at |-> "idle",
   requests |-> 0, responses |-> << >>, waited |-> << >>, value |-> [none |-> TRUE]]

PureIdle ==
  /\ fn = "none" /\ arg = << >> /\ clock = 0 /\ result = NullValidation
  /\ lookup = LookupIdle /\ server = ServerIdle

Init == BatchIdle /\ PureIdle

\* ------------------------------------------------------------------------
\* checkSteamAccounts
\* ------------------------------------------------------------------------
\* the precondition without its trim()
BlankKeyNoTrim(key) == key = << >>

\* !apiKey || apiKey.trim().length === 0
BlankKey(key) == key = << >> \/ Len(Trim(key)) = 0

\* the call: the precondition on the API key, then the empty result and stats
Call ==
  /\ pc = "idle"
  /\ \E a \in 1..Len(Catalogue), n \in 0..MaxTokens, key \in ApiKeys, inv \in BOOLEAN :
       /\ tokens' = Window(a, n)
       /\ apiKey' = key
       /\ checkInventory' = inv
       /\ IF BlankKey(key)
          THEN pc' = "failed" /\ UNCHANGED stats
          ELSE pc' = "loop" /\ stats' = ZeroStats(n)
  /\ UNCHANGED << i, accounts, progress, fetched, attempt, cur >>
  /\ UNCHANGED pureVars

\* the callback's arguments with the loop index as it is
ProgressArgsZeroBased(index, total) == << index, total >>

\* the arguments of onProgress?.(i + 1, tokens.length)
ProgressArgs(index, total) == << index + 1, total >>

\* top of the loop body: onProgress?.(i + 1, tokens.length), which may raise
\* (cur: the previous item's locals are gone)
Progress ==
  /\ pc = "loop" /\ i < Len(tokens)
  /\ progress' = Append(progress, ProgressArgs(i, Len(tokens)))
  /\ \E raised \in BOOLEAN : pc' = IF raised THEN "aborted" ELSE "process"
  /\ cur' = NoItem
  /\ UNCHANGED << tokens, apiKey, checkInventory, i, accounts, stats, fetched, attempt >>
  /\ UNCHANGED pureVars

\* the steam id taken from the decoded credential only
ResolveSteamIdClaimOnly(token, jwtValidation) ==
  IF TruthyStr(jwtValidation.steam_id) THEN jwtValidation.steam_id ELSE << >>

\* the steam id processToken settles on
ResolveSteamId(token, jwtValidation) ==
  IF TruthyStr(jwtValidation.steam_id) THEN jwtValidation.steam_id
  ELSE OrElse(extractSteamIdFromToken(token), << >>)

\* tokenInfo.jwt_token ? validateJWTToken(tokenInfo.jwt_token) : null
DecodeIfAny(tokenInfo, now) ==
  IF TruthyStr(tokenInfo.jwt_token) THEN validateJWTToken(tokenInfo.jwt_token, now)
  ELSE NullValidation

\* the condition with only its flag
WantsInventoryAnyId(inv, steamId) == inv

\* checkInventory && steamId && steamId !== "Error" && steamId !== "Unknown"
WantsInventory(inv, steamId) ==
  inv /\ steamId # << >> /\ steamId # Word("Error") /\ steamId # Word("Unknown")

\* where processToken goes once both lookups have returned
AfterLookups(steamId) ==
  IF WantsInventory(checkInventory, steamId) THEN "inventory" ELSE "build"

\* processToken up to its first await: parse, decode, resolve; with no steam id
\* both lookups return their empty structure at once
BeginToken ==
  /\ pc = "process"
  /\ \E now \in Clock :
       LET token == tokens[i + 1]
           tokenInfo == parseTokenFormat(token)
           jwtValidation == DecodeIfAny(tokenInfo, now)
           steamId == ResolveSteamId(token, jwtValidation)
       IN /\ cur' = [NoItem EXCEPT !.tokenInfo = tokenInfo, !.jwtValidation = jwtValidation,
                                   !.steamId = steamId]
          /\ pc' = IF IsSentinelId(steamId) THEN AfterLookups(steamId) ELSE "profile"
  /\ attempt' = 0
  /\ UNCHANGED << tokens, apiKey, checkInventory, i, accounts, stats, progress, fetched >>
  /\ UNCHANGED pureVars

AfterBans == AfterLookups(cur.steamId)

\* one pass of getUserProfile's loop that returns the response body
ProfileReturns ==
  /\ pc = "profile"
  /\ \E body \in ProfileBodies(cur.steamId) : cur' = [cur EXCEPT !.userProfile = body]
  /\ fetched' = TRUE
  /\ pc' = "bans" /\ attempt' = 0
  /\ UNCHANGED << tokens, apiKey, checkInventory, i, accounts, stats, progress >>
  /\ UNCHANGED pureVars

\* one pass of getUserProfile's loop that fails: retry, or give up
ProfileFails ==
  /\ pc = "profile"
  /\ \E kind \in FailureKinds :
       /\ fetched' = TRUE
       /\ IF Retries(attempt)
          THEN attempt' = attempt + 1 /\ UNCHANGED << pc, cur >>
          ELSE /\ cur' = [cur EXCEPT !.userProfile = UnknownProfile(cur.steamId),
                                      !.exhausted = TRUE]
               /\ pc' = "bans" /\ attempt' = 0
  /\ UNCHANGED << tokens, apiKey, checkInventory, i, accounts, stats, progress >>
  /\ UNCHANGED pureVars

BansReturns ==
  /\ pc = "bans"
  /\ \E body \in BanBodies(cur.steamId) : cur' = [cur EXCEPT !.banInfo = body]
  /\ fetched' = TRUE
  /\ pc' = AfterBans /\ attempt' = 0
  /\ UNCHANGED << tokens, apiKey, checkInventory, i, accounts, stats, progress >>
  /\ UNCHANGED pureVars

BansFails ==
  /\ pc = "bans"
  /\ \E kind \in FailureKinds :
       /\ fetched' = TRUE
       /\ IF Retries(attempt)
          THEN attempt' = attempt + 1 /\ UNCHANGED << pc, cur >>
          ELSE /\ cur' = [cur EXCEPT !.banInfo = NoBans(cur.steamId)]
               /\ pc' = AfterBans /\ attempt' = 0
  /\ UNCHANGED << tokens, apiKey, checkInventory, i, accounts, stats, progress >>
  /\ UNCHANGED pureVars

\* an OK response: the value, the private or the error result (a body with an
\* error field is returned, not retried)
InventoryReturns ==
  /\ pc = "inventory"
  /\ \E body \in InventoryBodies :
       cur' = [cur EXCEPT !.inventoryInfo = body, !.asked = TRUE]
  /\ fetched' = TRUE
  /\ pc' = "build" /\ attempt' = 0
  /\ UNCHANGED << tokens, apiKey, checkInventory, i, accounts, stats, progress >>
  /\ UNCHANGED pureVars

InventoryFails ==
  /\ pc = "inventory"
  /\ \E kind \in FailureKinds \ {"errbody"} :
       /\ fetched' = TRUE
       /\ IF Retries(attempt)
          THEN /\ attempt' = attempt + 1 /\ UNCHANGED pc
               /\ cur' = [cur EXCEPT !.asked = TRUE]
          ELSE /\ cur' = [cur EXCEPT !.inventoryInfo = FailedInventory, !.asked = TRUE]
               /\ pc' = "build" /\ attempt' = 0
  /\ UNCHANGED << tokens, apiKey, checkInventory, i, accounts, stats, progress >>
  /\ UNCHANGED pureVars

\* the accountNumber of the item at loop index i
AccountNumberZeroBased(index) == index

AccountNumber(index) == index + 1

\* the switch on account.status.toLowerCase()
CountStatus(st, status) ==
  CASE status = "Valid"             -> [st EXCEPT !.valid = @ + 1]
    [] status = "Expired"           -> [st EXCEPT !.expired = @ + 1]
    [] status = "Invalid"           -> [st EXCEPT !.invalid = @ + 1]
    [] status = "Invalid JWT"       -> [st EXCEPT !.invalid = @ + 1]
    [] status = "Account Not Found" -> [st EXCEPT !.account_not_found = @ + 1]
    [] status = "Limited Profile"   -> [st EXCEPT !.limited_profile = @ + 1]
    [] OTHER                        -> [st EXCEPT !.invalid = @ + 1]

\* the ban counters with the community flag counted as a VAC ban
CountBansSwapped(st, account) ==
  [st EXCEPT !.vac_banned = IF account.communityBanned THEN @ + 1 ELSE @,
             !.community_banned = IF account.communityBanned THEN @ + 1 ELSE @,
             !.economy_banned = IF account.economyBanned # "none" THEN @ + 1 ELSE @]

\* the three ban counters
CountBans(st, account) ==
  [st EXCEPT !.vac_banned = IF account.vacBanned THEN @ + 1 ELSE @,
             !.community_banned = IF account.communityBanned THEN @ + 1 ELSE @,
             !.economy_banned = IF account.economyBanned # "none" THEN @ + 1 ELSE @]

\* the catch block without its stats.invalid++
CountErrorForgotten(st) == st

\* the statistics the catch block leaves
CountError(st) == [st EXCEPT !.invalid = @ + 1]

\* processToken returns: push, count, then the pacing sleep unless last
Push ==
  /\ pc = "build" /\ ~Raises(cur.userProfile)
  /\ LET account == Account(AccountNumber(i), tokens[i + 1], cur.tokenInfo, cur.jwtValidation,
                             cur.steamId, cur.userProfile, cur.banInfo, cur.inventoryInfo)
     IN /\ accounts' = Append(accounts, account)
        /\ stats' = CountBans(CountStatus(stats, account.status), account)
  /\ IF i < Len(tokens) - 1 THEN pc' = "sleep" /\ i' = i
                            ELSE pc' = "loop" /\ i' = i + 1
  /\ UNCHANGED << tokens, apiKey, checkInventory, progress, fetched, attempt, cur >>
  /\ UNCHANGED pureVars

\* processToken raises: the catch block pushes the Error record
Catch ==
  /\ pc = "build" /\ Raises(cur.userProfile)
  /\ accounts' = Append(accounts, ErrorAccount(AccountNumber(i), tokens[i + 1]))
  /\ stats' = CountError(stats)
  /\ pc' = "loop" /\ i' = i + 1
  /\ UNCHANGED << tokens, apiKey, checkInventory, progress, fetched, attempt, cur >>
  /\ UNCHANGED pureVars

\* setTimeout(resolve, 500) between items
Sleep ==
  /\ pc = "sleep"
  /\ pc' = "loop" /\ i' = i + 1
  /\ cur' = [cur EXCEPT !.slept = TRUE]
  /\ UNCHANGED << tokens, apiKey, checkInventory, accounts, stats, progress, fetched, attempt >>
  /\ UNCHANGED pureVars

\* return { accounts, stats }
Return ==
  /\ pc = "loop" /\ i >= Len(tokens)
  /\ pc' = "done"
  /\ UNCHANGED << tokens, apiKey, checkInventory, i, accounts, stats, progress, fetched, attempt, cur >>
  /\ UNCHANGED pureVars

Next ==
  \/ Call
  \/ Progress
  \/ BeginToken
  \/ ProfileReturns
  \/ ProfileFails
  \/ BansReturns
  \/ BansFails
  \/ InventoryReturns
  \/ InventoryFails
  \/ Push
  \/ Catch
  \/ Sleep
  \/ Return

Spec == Init /\ [][Next]_vars

\* ------------------------------------------------------------------------
\* validateJWTToken alone, on every credential string and clock value
\* ------------------------------------------------------------------------
JwtInputs ==
  { Jwt(p) : p \in PayloadNames }
  \cup { << "<hdr>", ".", "<valid>" >>,
         << "<hdr>" >>,
         << >>,
         Jwt("<valid>") \o << ".", "x" >>,
         << "<hdr>", ".", ".", "<sig>" >>,
         << "<hdr>", ".", "x", "x", "x", ".", "<sig>" >>,
         << "<hdr>", ".", "x", "=", ".", "<sig>" >> }

InitDecoder ==
  /\ BatchIdle
  /\ fn = "none" /\ arg \in JwtInputs /\ clock \in Clock /\ result = NullValidation
  /\ lookup = LookupIdle /\ server = ServerIdle

Decode ==
  /\ fn = "none"
  /\ fn' = "validateJWTToken"
  /\ result' = validateJWTToken(arg, clock)
  /\ UNCHANGED << arg, clock, lookup, server >>
  /\ UNCHANGED batchVars

SpecDecoder == InitDecoder /\ [][Decode]_vars

\* ------------------------------------------------------------------------
\* parseTokenFormat alone, on lines put together from the pieces of the
\* three formats
\* ------------------------------------------------------------------------
\* the value of a steamLoginSecure cookie: id, URL-encoded "||", credential
CookieValue(jwt) == CanonId \o << "%7C%7C" >> \o jwt

LineHeads ==
  { << >>, << "u" >>, << " ", "u", " " >>, CookieKey \o << "x" >>,
    << "sessionid", "=", "x", ";", " " >> }

LineJoints == { << >>, Delim, Delim \o << "-" >>, << " " >> \o Delim \o << " " >> }

LineTails ==
  { << >>, Jwt("<valid>"), Jwt("<named>"), << "<hdr>", ".", "<valid>" >>,
    CookieKey \o CookieValue(Jwt("<valid>")),
    CookieKey \o CookieValue(Jwt("<named>")) \o << ";", " ", "sessionid", "=", "x" >>,
    CookieKey \o << ";" >>,
    Jwt("<valid>") \o Delim \o << "x" >>,
    << "a", "=", "b", "=", "c" >> }

ParserLines == { h \o j \o t : h \in LineHeads, j \in LineJoints, t \in LineTails }

InitParser ==
  /\ BatchIdle
  /\ fn = "none" /\ arg \in ParserLines /\ clock = 0 /\ result = NullValidation
  /\ lookup = LookupIdle /\ server = ServerIdle

Parse ==
  /\ fn = "none"
  /\ fn' = "parseTokenFormat"
  /\ result' = parseTokenFormat(arg)
  /\ UNCHANGED << arg, clock, lookup, server >>
  /\ UNCHANGED batchVars

SpecParser == InitParser /\ [][Parse]_vars

\* ------------------------------------------------------------------------
\* SecurityUtils.sanitizeInput and validateSteamToken, and the filter of
\* handleCheck, on lines written out character by character
\* ------------------------------------------------------------------------
Lowers == { "a","b","c","d","e","f","g","h","i","j","k","l","m",
            "n","o","p","q","r","s","t","u","v","w","x","y","z" }
Uppers == { "A","B","C","D","E","F","G","H","I","J","K","L","M",
            "N","O","P","Q","R","S","T","U","V","W","X","Y","Z" }

\* \w, [A-Za-z0-9_-] and [0-9%]
WordChars == Lowers \cup Uppers \cup Digits \cup {"_"}
TokenChars == WordChars \cup {"-"}
IdChars == Digits \cup {"%"}

\* [\x00-\x1f\x7f-\x9f] among the characters of the lines
ControlChars == {"\t", "\r"}

AllIn(s, S) == \A k \in 1..Len(s) : s[k] \in S

\* the characters a symbol of a line stands for
Spell(sym) ==
  CASE sym = "<hdr>"            -> << "e","y","J","h" >>
    [] sym = "<sig>"            -> << "s","i","g" >>
    [] sym = "<badb64>"         -> << "e","y","J","!" >>
    [] sym \in PayloadNames     -> << "e","y","J","p" >>
    [] sym = "steamLoginSecure" -> << "s","t","e","a","m","L","o","g","i","n","S","e","c","u","r","e" >>
    [] sym = "sessionid"        -> << "s","e","s","s","i","o","n","i","d" >>
    [] sym = "steamid"          -> << "s","t","e","a","m","i","d" >>
    [] sym = "%7C%7C"           -> << "%","7","C","%","7","C" >>
    [] OTHER                    -> << sym >>

RECURSIVE SpellLine(_)
SpellLine(line) == IF line = << >> THEN << >> ELSE Spell(Head(line)) \o SpellLine(Tail(line))

\* s.replace(/[..]/g, "") for a character class
RECURSIVE RemoveChars(_, _)
RemoveChars(s, S) ==
  IF s = << >> THEN << >>
  ELSE (IF Head(s) \in S THEN << >> ELSE << Head(s) >>) \o RemoveChars(Tail(s), S)

\* the lower-case letter of a letter, the character itself otherwise
LowerOf(c) ==
  IF c \in Uppers THEN CHOOSE l \in Lowers : << c, l >> \in
       { << "A","a" >>, << "B","b" >>, << "C","c" >>, << "D","d" >>, << "E","e" >>,
         << "F","f" >>, << "G","g" >>, << "H","h" >>, << "I","i" >>, << "J","j" >>,
         << "K","k" >>, << "L","l" >>, << "M","m" >>, << "N","n" >>, << "O","o" >>,
         << "P","p" >>, << "Q","q" >>, << "R","r" >>, << "S","s" >>, << "T","t" >>,
         << "U","u" >>, << "V","v" >>, << "W","w" >>, << "X","x" >>, << "Y","y" >>,
         << "Z","z" >> }
  ELSE c

\* s starts, ignoring case, with the lower-case word w
StartsWithCI(s, w) ==
  Len(s) >= Len(w) /\ \A k \in 1..Len(w) : LowerOf(s[k]) = w[k]

\* s.replace(/w/gi, "") for a literal word
RECURSIVE RemoveWordCI(_, _)
RemoveWordCI(s, w) ==
  IF s = << >> THEN << >>
  ELSE IF StartsWithCI(s, w) THEN RemoveWordCI(SubSeq(s, Len(w) + 1, Len(s)), w)
  ELSE << Head(s) >> \o RemoveWordCI(Tail(s), w)

\* the length of the longest prefix of s made of characters of S
RECURSIVE RunLength(_, _)
RunLength(s, S) ==
  IF s = << >> \/ Head(s) \notin S THEN 0 ELSE 1 + RunLength(Tail(s), S)

\* the length of the match of /on\w+=/i at the start of s, 0 if none
HandlerAt(s) ==
  LET r == RunLength(SubSeq(s, 3, Len(s)), WordChars)
  IN IF StartsWithCI(s, << "o", "n" >>) /\ r >= 1 /\ Len(s) >= r + 3 /\ s[r + 3] = "="
     THEN r + 3 ELSE 0

\* s.replace(/on\w+=/gi, "")
RECURSIVE RemoveHandlers(_)
RemoveHandlers(s) ==
  IF s = << >> THEN << >>
  ELSE IF HandlerAt(s) > 0 THEN RemoveHandlers(SubSeq(s, HandlerAt(s) + 1, Len(s)))
  ELSE << Head(s) >> \o RemoveHandlers(Tail(s))

sanitizeInput(input) ==
  LET s1 == RemoveChars(input, {"<", ">"})
      s2 == RemoveWordCI(s1, << "j","a","v","a","s","c","r","i","p","t",":" >>)
      s3 == RemoveHandlers(s2)
      s4 == RemoveWordCI(s3, << "d","a","t","a",":" >>)
      s5 == RemoveWordCI(s4, << "v","b","s","c","r","i","p","t",":" >>)
      s6 == RemoveChars(s5, ControlChars)
  IN Trim(s6)

\* /^eyJ[A-Za-z0-9_-]+\.[A-Za-z0-9_-]+\.[A-Za-z0-9_-]+$/
jwtRegex(s) ==
  LET parts == Split(s, << "." >>)
  IN /\ Len(parts) = 3
     /\ \A k \in 1..3 : parts[k] # << >> /\ AllIn(parts[k], TokenChars)
     /\ Len(parts[1]) >= 4
     /\ SubSeq(parts[1], 1, 3) = << "e", "y", "J" >>

\* /^[a-zA-Z0-9_-]+----eyJ...$/
usernameJwtRegex(s) ==
  \E k \in 1..Len(s) :
    /\ AllIn(SubSeq(s, 1, k), TokenChars)
    /\ k + 4 <= Len(s)
    /\ SubSeq(s, k + 1, k + 4) = Delim
    /\ jwtRegex(SubSeq(s, k + 5, Len(s)))

CookieKeyChars == Spell("steamLoginSecure") \o << "=" >>

\* /^steamLoginSecure=[0-9%]+\|\|eyJ...$/
cookieRegex(s) ==
  LET b == Len(CookieKeyChars) IN
  /\ StartsWith(s, CookieKeyChars)
  /\ \E m \in 1..Len(s) :
       /\ b + m + 2 <= Len(s)
       /\ AllIn(SubSeq(s, b + 1, b + m), IdChars)
       /\ SubSeq(s, b + m + 1, b + m + 2) = << "|", "|" >>
       /\ jwtRegex(SubSeq(s, b + m + 3, Len(s)))

validateSteamToken(token) ==
  LET sanitizedToken == sanitizeInput(token)
  IN /\ token # << >>
     /\ jwtRegex(sanitizedToken) \/ usernameJwtRegex(sanitizedToken) \/ cookieRegex(sanitizedToken)

\* the lines of the parser written out, and lines with literal "||", markup,
\* control characters, and runs of "-" inside the first segment of a JWT
GuardLines ==
  { SpellLine(l) : l \in ParserLines }
  \cup { SpellLine(CookieKey \o CanonId \o << "|", "|" >> \o Jwt("<valid>")),
         SpellLine(CookieKey \o << "|", "|" >> \o Jwt("<valid>")),
         SpellLine(<< "<" >> \o Jwt("<valid>") \o << ">" >>),
         SpellLine(<< "u", "\t" >> \o Delim \o Jwt("<valid>")),
         SpellLine(<< "o", "n", "x", "=", "u" >> \o Delim \o Jwt("<valid>")),
         SpellLine(<< "D", "a", "t", "a", ":" >> \o Jwt("<valid>")),
         SpellLine(<< "<hdr>" >> \o Delim \o << "x", ".", "<valid>", ".", "<sig>" >>),
         SpellLine(<< "<hdr>", "-", "-", "-", "x", ".", "<valid>", ".", "<sig>" >>) }

\* a line of the token list before handleCheck has looked at it
Unfiltered == [sanitized |-> << >>, isValid |-> FALSE, tokenInfo |-> NoItem.tokenInfo]

InitGuard ==
  /\ BatchIdle
  /\ fn = "none" /\ arg \in GuardLines /\ clock = 0 /\ result = Unfiltered
  /\ lookup = LookupIdle /\ server = ServerIdle

\* handleCheck on one line of the text area: the map, the filter, and for a
\* line let through the tokenInfo processToken makes of it in the batch
Filter ==
  /\ fn = "none"
  /\ fn' = "handleCheck"
  /\ LET sanitized == sanitizeInput(Trim(arg))
         isValid == Len(sanitized) > 0 /\ validateSteamToken(sanitized)
     IN result' = [sanitized |-> sanitized, isValid |-> isValid,
                   tokenInfo |-> IF isValid THEN parseTokenFormat(sanitized)
                                 ELSE NoItem.tokenInfo]
  /\ UNCHANGED << arg, clock, lookup, server >>
  /\ UNCHANGED batchVars

SpecGuard == InitGuard /\ [][Filter]_vars

\* ------------------------------------------------------------------------
\* getUserProfile, getBanInfo and getInventoryInfo alone, on every sequence
\* of responses
\* ------------------------------------------------------------------------
LookupFns == {"getUserProfile", "getBanInfo", "getInventoryInfo"}

\* processToken calls getInventoryInfo only with a usable steam id
LookupIds(f) ==
  IF f = "getInventoryInfo" THEN {CanonId}
  ELSE {CanonId, << >>, Word("Unknown"), Word("Error")}

\* the early return of getUserProfile and getBanInfo
ReturnsUnasked(f, steamId) == f # "getInventoryInfo" /\ IsSentinelId(steamId)

\* the structure returned without a request
Unasked(f) == IF f = "getUserProfile" THEN EmptyProfile ELSE NoBans(<< >>)

\* the structure returned after the loop has run out
GaveUp(f, steamId) ==
  CASE f = "getUserProfile"   -> UnknownProfile(steamId)
    [] f = "getBanInfo"       -> NoBans(steamId)
    [] f = "getInventoryInfo" -> FailedInventory

\* milliseconds per attempt waited after HTTP 429
RateLimitDelay(f) == IF f = "getInventoryInfo" THEN 1500 ELSE 1000

\* milliseconds per attempt waited in the catch block
CatchDelay(f) == IF f = "getInventoryInfo" THEN 800 ELSE 500

\* the setTimeout argument before the next attempt
Backoff(f, kind, att) ==
  (IF kind = "429" THEN RateLimitDelay(f) ELSE CatchDelay(f)) * (att + 1)

\* the loop condition running one attempt too many
LoopRunsOnceMore(att) == att <= maxRetries + 1

\* for (let attempt = 0; attempt <= maxRetries; attempt++)
LoopRuns(att) == att <= maxRetries

\* responses on which a pass of the loop returns, and what it returns
AnswerKinds(f) == IF f = "getInventoryInfo" THEN {"ok", "errbody"} ELSE {"ok"}

Answers(f, kind, steamId) ==
  CASE f = "getUserProfile" -> ProfileBodies(steamId)
    [] f = "getBanInfo"     -> BanBodies(steamId)
    [] f = "getInventoryInfo" /\ kind = "ok" -> { b \in InventoryBodies : b.error = "null" }
    [] OTHER                -> { b \in InventoryBodies : b.error # "null" }

\* responses on which a pass of the loop does not return
FailKinds(f) == IF f = "getInventoryInfo" THEN FailureKinds \ {"errbody"} ELSE FailureKinds

InitLookup ==
  /\ BatchIdle
  /\ fn = "none" /\ arg = << >> /\ clock = 0 /\ result = NullValidation
  /\ server = ServerIdle
  /\ \E f \in LookupFns : \E id \in LookupIds(f) :
       lookup = [LookupIdle EXCEPT !.fn = f, !.steamId = id, !.at = "called"]

\* the guard on the steam id before the loop
LookupGuard ==
  /\ lookup.at = "called"
  /\ lookup' = IF ReturnsUnasked(lookup.fn, lookup.steamId)
               THEN [lookup EXCEPT !.at = "returned", !.value = Unasked(lookup.fn)]
               ELSE [lookup EXCEPT !.at = "loop", !.attempt = 0]
  /\ UNCHANGED << fn, arg, clock, result, server >>
  /\ UNCHANGED batchVars

\* a pass of the loop that returns what the endpoint answered
LookupAnswers ==
  /\ lookup.at = "loop" /\ LoopRuns(lookup.attempt)
  /\ \E kind \in AnswerKinds(lookup.fn) : \E body \in Answers(lookup.fn, kind, lookup.steamId) :
       lookup' = [lookup EXCEPT !.requests = @ + 1, !.responses = Append(@, kind),
                                !.value = body, !.at = "returned"]
  /\ UNCHANGED << fn, arg, clock, result, server >>
  /\ UNCHANGED batchVars

\* a pass of the loop that fails: HTTP 429 waits and continues, unless it is
\* the last attempt, where it is thrown as a non-OK status; the catch block
\* waits and continues unless it is the last attempt; then attempt++
LookupFails ==
  /\ lookup.at = "loop" /\ LoopRuns(lookup.attempt)
  /\ \E kind \in FailKinds(lookup.fn) :
       lookup' = [lookup EXCEPT
                    !.requests = @ + 1, !.responses = Append(@, kind),
                    !.waited = IF Retries(lookup.attempt)
                               THEN Append(@, Backoff(lookup.fn, kind, lookup.attempt))
                               ELSE @,
                    !.attempt = @ + 1]
  /\ UNCHANGED << fn, arg, clock, result, server >>
  /\ UNCHANGED batchVars

\* the loop has run out: the return statement after it
LookupGivesUp ==
  /\ lookup.at = "loop" /\ ~LoopRuns(lookup.attempt)
  /\ lookup' = [lookup EXCEPT !.at = "returned",
                              !.value = GaveUp(lookup.fn, lookup.steamId)]
  /\ UNCHANGED << fn, arg, clock, result, server >>
  /\ UNCHANGED batchVars

NextLookup == LookupGuard \/ LookupAnswers \/ LookupFails \/ LookupGivesUp

\* every response arrives and every timer fires
SpecLookup == InitLookup /\ [][NextLookup]_vars /\ WF_vars(NextLookup)

\* ------------------------------------------------------------------------
\* GET /api/steam/inventory up to the rate limit decision
\* ------------------------------------------------------------------------
\* the clock advances in steps of TickMs, MaxTicks times at most
TickMs == 30000
MaxTicks == 3

\* the second client is a quiet one: it sends a request only while fewer
\* than QuietLimit of its requests lie within the last minute
QuietIp == "10.0.0.2"
QuietLimit == 2

\* checkRateLimit(ip) at time now: the answer and the entry it leaves
checkRateLimit(map, ip, now) ==
  LET current == map[ip] IN
  IF current.present /\ current.blocked /\ now < current.resetTime
  THEN [allowed |-> FALSE, remaining |-> 0, entry |-> current]
  ELSE IF ~current.present \/ now > current.resetTime
  THEN [allowed |-> TRUE, remaining |-> maxRequests - 1,
        entry |-> [present |-> TRUE, count |-> 1, resetTime |-> now + windowMs,
                   blocked |-> FALSE]]
  ELSE IF current.count >= maxRequests
  THEN [allowed |-> FALSE, remaining |-> 0,
        entry |-> [current EXCEPT !.blocked = TRUE, !.resetTime = now + blockDuration]]
  ELSE [allowed |-> TRUE, remaining |-> maxRequests - (current.count + 1),
        entry |-> [current EXCEPT !.count = @ + 1]]

\* the times of seq that lie within the minute ending at now
RECURSIVE WithinWindow(_, _)
WithinWindow(seq, now) ==
  IF seq = << >> THEN << >>
  ELSE (IF now - Head(seq) < 60000 THEN << Head(seq) >> ELSE << >>)
       \o WithinWindow(Tail(seq), now)

InitServer ==
  /\ BatchIdle
  /\ fn = "none" /\ arg = << >> /\ clock = 0 /\ result = NullValidation
  /\ lookup = LookupIdle /\ server = ServerIdle

\* GET: 413 for an oversized request, 429 when checkRateLimit refuses, and
\* otherwise the request goes on to the inventory lookup (status 200)
Get ==
  /\ \E ip \in Ips, tooLarge \in BOOLEAN :
       LET rateLimit == checkRateLimit(server.rateLimitMap, ip, server.now)
           lately == WithinWindow(server.passed[ip], server.now)
       IN /\ ip = QuietIp => Len(lately) < QuietLimit
          /\ server' =
            (IF tooLarge THEN [server EXCEPT !.status = 413, !.ip = ip]
             ELSE IF ~rateLimit.allowed
             THEN [server EXCEPT !.status = 429, !.ip = ip,
                                 !.rateLimitMap[ip] = rateLimit.entry,
                                 !.passed[ip] = lately]
             ELSE [server EXCEPT !.status = 200, !.ip = ip,
                                 !.rateLimitMap[ip] = rateLimit.entry,
                                 !.passed[ip] = Append(lately, server.now)])
  /\ UNCHANGED << fn, arg, clock, result, lookup >>
  /\ UNCHANGED batchVars

\* time passes
Tick ==
  /\ server.now < MaxTicks * TickMs
  /\ server' = [server EXCEPT !.now = @ + TickMs]
  /\ UNCHANGED << fn, arg, clock, result, lookup >>
  /\ UNCHANGED batchVars

NextServer == Get \/ Tick

SpecServer == InitServer /\ [][NextServer]_vars

\* ------------------------------------------------------------------------
\* checkRateLimit alone, for one client, around the end of a block
\* ------------------------------------------------------------------------
BusyIp == "10.0.0.1"
MaxWaits == 4

\* the pauses between requests: a millisecond, or a millisecond less than
\* the block lasts
Pauses == {1, blockDuration - 1}

\* the call took the branch current.count >= maxRequests
OverLimit(map, ip, now) ==
  /\ ~checkRateLimit(map, ip, now).allowed
  /\ ~(map[ip].present /\ map[ip].blocked /\ now < map[ip].resetTime)

\* one request of the client: checkRateLimit(ip) at the current time
Ask ==
  /\ LET rateLimit == checkRateLimit(server.rateLimitMap, BusyIp, server.now)
         waiting == { t \in server.limited : ~(server.now > t + blockDuration) }
     IN server' = [server EXCEPT
                     !.status = IF rateLimit.allowed THEN 200 ELSE 429,
                     !.ip = BusyIp,
                     !.rateLimitMap[BusyIp] = rateLimit.entry,
                     !.limited = IF OverLimit(server.rateLimitMap, BusyIp, server.now)
                                 THEN waiting \cup {server.now} ELSE waiting]
  /\ UNCHANGED << fn, arg, clock, result, lookup >>
  /\ UNCHANGED batchVars

\* time passes between two requests
Wait ==
  /\ server.waits < MaxWaits
  /\ \E d \in Pauses : server' = [server EXCEPT !.now = @ + d, !.waits = @ + 1]
  /\ UNCHANGED << fn, arg, clock, result, lookup >>
  /\ UNCHANGED batchVars

NextLimiter == Ask \/ Wait

SpecLimiter == InitServer /\ [][NextLimiter]_vars

\* ------------------------------------------------------------------------
\* Properties of checkSteamAccounts
\* ------------------------------------------------------------------------
Returned == pc = "done"

Count(P(_)) == Cardinality({k \in 1..Len(accounts) : P(accounts[k])})

IsError(account) == account.status = "Error"

\* C1: a batch that returns has one record per input line, in input order:
\* record k carries accountNumber k and the (trimmed) text of line k, also
\* when some items raised and got Error records.
C1_OneRecordPerLine ==
  Returned =>
    /\ Len(accounts) = Len(tokens)
    /\ \A k \in 1..Len(accounts) :
         /\ accounts[k].accountNumber = k
         /\ accounts[k].originalToken = Trim(tokens[k])

C1_Witness ==
  /\ Returned /\ Len(tokens) >= 2
  /\ \E k \in 1..Len(accounts) : IsError(accounts[k])
  /\ \E k \in 1..Len(accounts) : ~IsError(accounts[k])

\* C2: no exception of an item's pipeline, the progress callback included,
\* escapes checkSteamAccounts: the batch is never left with an exception, and
\* once the loop has moved past an item that item has its record.
C2_NoExceptionEscapes ==
  /\ pc # "aborted"
  /\ pc \in {"loop", "done"} => Len(accounts) = i

\* C3: in the returned statistics total is the number of records and every
\* record is counted in exactly one of valid, invalid, expired,
\* account_not_found, limited_profile (Invalid, Invalid JWT and Error in invalid).
HasStatus(S, account) == account.status \in S

IsValid(account) == HasStatus({"Valid"}, account)
IsInvalid(account) == HasStatus({"Invalid", "Invalid JWT", "Error"}, account)
IsExpired(account) == HasStatus({"Expired"}, account)
IsNotFound(account) == HasStatus({"Account Not Found"}, account)
IsLimited(account) == HasStatus({"Limited Profile"}, account)

C3_StatusCountersPartition ==
  Returned =>
    /\ stats.total = Len(accounts)
    /\ stats.valid = Count(IsValid)
    /\ stats.invalid = Count(IsInvalid)
    /\ stats.expired = Count(IsExpired)
    /\ stats.account_not_found = Count(IsNotFound)
    /\ stats.limited_profile = Count(IsLimited)
    /\ stats.valid + stats.invalid + stats.expired + stats.account_not_found
         + stats.limited_profile = stats.total

C3_Witness ==
  /\ Returned /\ Len(accounts) >= 2
  /\ \E k \in 1..Len(accounts) : IsError(accounts[k])
  /\ \E k \in 1..Len(accounts) : accounts[k].status = "Invalid JWT"

\* C4 as claimed: the returned ban counters are the numbers of returned
\* records, Error records included, with vacBanned, with communityBanned and
\* with economyBanned other than "none".
VacFlag(account) == account.vacBanned
CommunityFlag(account) == account.communityBanned
EconomyFlag(account) == account.economyBanned # "none"
EconomyFlagNoError(account) == ~IsError(account) /\ account.economyBanned # "none"

C4_BanCountersFoldAllRecords ==
  Returned =>
    /\ stats.vac_banned = Count(VacFlag)
    /\ stats.community_banned = Count(CommunityFlag)
    /\ stats.economy_banned = Count(EconomyFlag)

\* C4 as amended: the same fold, except that an Error record (whose
\* economyBanned is "error") is not counted in economy_banned.
C4_BanCountersFoldProcessedRecords ==
  Returned =>
    /\ stats.vac_banned = Count(VacFlag)
    /\ stats.community_banned = Count(CommunityFlag)
    /\ stats.economy_banned = Count(EconomyFlagNoError)

C4_Witness ==
  /\ Returned
  /\ \E k \in 1..Len(accounts) : IsError(accounts[k])
  /\ \E k \in 1..Len(accounts) : accounts[k].communityBanned /\ ~accounts[k].vacBanned
  /\ stats.economy_banned = 1

\* C5: with an API key that is empty or only whitespace the call fails at
\* once: no record, no progress call, no request, whatever the input lines.
C5_BlankKeyFailsAtOnce ==
  (pc # "idle" /\ \A k \in 1..Len(apiKey) : apiKey[k] = " ") =>
    /\ pc = "failed"
    /\ accounts = << >>
    /\ progress = << >>
    /\ ~fetched

C5_Witness ==
  /\ pc = "failed" /\ apiKey = << " ", " " >> /\ Len(tokens) >= 2

\* ------------------------------------------------------------------------
\* Properties of validateJWTToken (specification SpecDecoder)
\* ------------------------------------------------------------------------
Decoded == fn = "validateJWTToken"

\* C6: a result with is_valid true has a steam_id of exactly 17 digits that
\* starts with 7656119, whichever path produced the claims.
C6_ValidHasCanonicalId ==
  (Decoded /\ result.is_valid) =>
    /\ result.steam_id # NONE
    /\ Len(result.steam_id) = 17
    /\ SubSeq(result.steam_id, 1, 7) = << "7", "6", "5", "6", "1", "1", "9" >>
    /\ \A k \in 1..17 : result.steam_id[k] \in Digits

C6_Witness ==
  /\ Decoded /\ result.is_valid /\ result.path = "regex"
  /\ arg = Jwt("<rxnoise12>")

\* C7: a result with is_expired true has is_valid false, for every clock
\* value, also when a canonical steam_id was recovered.
C7_ExpiredIsNotValid == (Decoded /\ result.is_expired) => ~result.is_valid

C7_Witness ==
  /\ Decoded /\ result.is_expired /\ result.steam_id = CanonId
  /\ clock = NowLate /\ result.expires_at = ExpMid

\* ------------------------------------------------------------------------
\* Properties of processToken
\* ------------------------------------------------------------------------
\* the last record is the one made from cur
ItemDone == pc \in {"sleep", "loop", "done"} /\ cur.tokenInfo.pattern # "none"

Last == accounts[Len(accounts)]

\* the profile data of cur is on the last record (the two times as
\* formatTimestamp renders them: "Never" for a time that is not positive)
ProfileAttached ==
  /\ Last.realName = cur.userProfile.real_name
  /\ Last.profileUrl = cur.userProfile.profile_url
  /\ Last.personaState = cur.userProfile.persona_state
  /\ Last.accountCreated = formatTimestamp(cur.userProfile.time_created)
  /\ Last.lastOnline = formatTimestamp(cur.userProfile.last_logoff)

\* C8: the record processToken returns for a decoded, expired credential has
\* status Expired whatever the profile and ban lookups gave, and carries
\* the profile data.
C8_ExpiredWhateverTheProfile ==
  (ItemDone /\ ~cur.jwtValidation.null /\ cur.jwtValidation.is_expired /\ ~IsError(Last)) =>
    /\ Last.status = "Expired"
    /\ ProfileAttached

C8_Witness ==
  /\ ItemDone /\ cur.jwtValidation.is_expired /\ Last.status = "Expired"
  /\ cur.userProfile.username = Word("alice") /\ cur.userProfile.time_created > 0
  /\ Last.realName = Word("Al") /\ Last.vacBanned

\* a non-empty credential was extracted, it has not exactly three segments,
\* and no account id was resolved
BadSegmentCount ==
  /\ ItemDone /\ ~IsError(Last)
  /\ TruthyStr(cur.tokenInfo.jwt_token)
  /\ Len(Split(cur.tokenInfo.jwt_token, << "." >>)) # 3
  /\ cur.steamId = << >>

\* C9 as claimed: for a credential that has not exactly three segments, with
\* no account id resolvable from the line, the decoder fails with the 'wrong
\* number of parts' error and no steam_id, and the status is Invalid.
C9_BadSegmentCountIsInvalid ==
  BadSegmentCount =>
    /\ cur.jwtValidation.error = "Invalid JWT format - wrong number of parts"
    /\ cur.jwtValidation.steam_id = NONE
    /\ Last.status = "Invalid"

\* C9 as amended: the same for a non-empty credential, with status Invalid JWT.
C9_BadSegmentCountIsInvalidJwt ==
  BadSegmentCount =>
    /\ ~cur.jwtValidation.null
    /\ cur.jwtValidation.error = "Invalid JWT format - wrong number of parts"
    /\ cur.jwtValidation.steam_id = NONE
    /\ Last.status = "Invalid JWT"

C9_Witness ==
  /\ BadSegmentCount /\ Last.status = "Invalid JWT"
  /\ cur.tokenInfo.jwt_token = << "<hdr>", ".", "<garbage>" >>

\* C10: when the profile lookup has failed on all three attempts the profile
\* is the sentinel (username "Unknown", time_created 0), the record is not an
\* Error record, a valid unexpired credential gives Account Not Found or
\* Limited Profile, and the loop stands where it stands after any item.
C10_ExhaustedProfileDegrades ==
  (ItemDone /\ cur.exhausted) =>
    /\ cur.userProfile.username = Word("Unknown")
    /\ cur.userProfile.time_created = 0
    /\ ~IsError(Last)
    /\ Last.accountNumber = Len(accounts)
    /\ (cur.jwtValidation.is_valid /\ ~cur.jwtValidation.is_expired)
         => Last.status \in {"Account Not Found", "Limited Profile"}
    /\ IF pc = "sleep" THEN Len(accounts) = i + 1 /\ i + 1 < Len(tokens)
                       ELSE Len(accounts) = i

C10_Witness ==
  /\ ItemDone /\ cur.exhausted /\ pc = "sleep"
  /\ cur.jwtValidation.is_valid /\ Last.status = "Account Not Found"

\* ------------------------------------------------------------------------
\* Properties of the lookups (specification SpecLookup)
\* ------------------------------------------------------------------------
LookupReturned == lookup.at = "returned"

\* every response so far was a failure
AllFailed == \A k \in 1..Len(lookup.responses) : lookup.responses[k] \in FailKinds(lookup.fn)

\* the value is one of the structures of the function's result type
IsLookupValue(f, v) ==
  CASE f = "getUserProfile"   -> DOMAIN v = DOMAIN EmptyProfile
    [] f = "getBanInfo"       -> DOMAIN v = DOMAIN NoBans(<< >>)
    [] f = "getInventoryInfo" -> DOMAIN v = DOMAIN FailedInventory

C11_Safe ==
  /\ lookup.requests <= 3
  /\ Len(lookup.waited) <= lookup.requests
  /\ \A k \in 1..Len(lookup.waited) :
       /\ lookup.responses[k] \in FailureKinds
       /\ \E unit \in {500, 800, 1000, 1500} : lookup.waited[k] = unit * k
  /\ LookupReturned =>
       /\ IsLookupValue(lookup.fn, lookup.value)
       /\ lookup.requests > 0 => Len(lookup.waited) = lookup.requests - 1
       /\ (lookup.requests = 3 /\ AllFailed) =>
            lookup.value = GaveUp(lookup.fn, lookup.steamId)

\* C11: whatever the responses (429, another non-OK status, a body with an
\* error field, a rejected fetch), a lookup sends at most 3 requests, waits
\* before each further attempt a delay proportional to the attempt number,
\* returns a value (the give-up structure after the third failure) and
\* always comes to return.
C11_LookupsBoundedAndTotal == [](C11_Safe) /\ <>(LookupReturned)

C11_Witness ==
  /\ LookupReturned /\ lookup.fn = "getInventoryInfo"
  /\ lookup.responses = << "429", "netexc", "429" >>
  /\ lookup.waited = << 1500, 1600 >>
  /\ lookup.value = FailedInventory

\* ------------------------------------------------------------------------
\* Properties of processToken on cookie text
\* ------------------------------------------------------------------------
\* processToken has parsed, decoded and resolved the item in hand
Resolved == pc \in {"profile", "bans", "inventory", "build"}

\* the line in hand is cookie text with an account id in it that matches none
\* of the delimiter, steamLoginSecure= and three-segment patterns
PlainCookieLine ==
  /\ Resolved
  /\ ~Includes(tokens[i + 1], Delim)
  /\ ~Includes(tokens[i + 1], CookieKey)
  /\ Len(Split(tokens[i + 1], << "." >>)) # 3
  /\ Includes(tokens[i + 1], << "=" >>)
  /\ MatchSteamId(tokens[i + 1], 1) # NONE

\* C12: for cookie text holding a 17-digit id 7656119.. and matching none of
\* the three credential patterns, the parser returns a cookie map and no
\* credential, the decoder is not called, the steam id is the id found by the
\* scan of the raw line, and the profile lookup is made with that id.
C12_CookieTextResolvesByScan ==
  PlainCookieLine =>
    /\ cur.tokenInfo.jwt_token = NONE
    /\ cur.tokenInfo.username = NONE
    /\ cur.tokenInfo.cookies = parseCookiesFromLine(tokens[i + 1])
    /\ DOMAIN cur.tokenInfo.cookies # {}
    /\ cur.jwtValidation.null
    /\ cur.steamId = MatchSteamId(tokens[i + 1], 1)
    /\ Len(cur.steamId) = 17 /\ StartsWith(cur.steamId, SteamPrefix)
    /\ pc # "profile" =>
         /\ fetched
         /\ cur.userProfile.profile_url = ProfilesUrl(MatchSteamId(tokens[i + 1], 1))

C12_Witness ==
  /\ PlainCookieLine /\ pc = "bans"
  /\ Includes(tokens[i + 1], << "." >>)
  /\ cur.steamId = CanonId
  /\ cur.tokenInfo.cookies[<< "steamid" >>] = CanonId
  /\ cur.userProfile.username = Word("alice")

\* ------------------------------------------------------------------------
\* Properties of parseTokenFormat (specification SpecParser)
\* ------------------------------------------------------------------------
Parsed == fn = "parseTokenFormat"

\* the text before the first delimiter, and the text after it up to the next
BeforeDelim(line) == Split(line, Delim)[1]
AfterDelim(line) == Split(line, Delim)[2]

\* C13: a line holding both "----" and "steamLoginSecure=" is parsed by the
\* delimiter pattern: the username is the trimmed text before the delimiter,
\* the credential is the trimmed text after it, and the capture of the
\* steamLoginSecure= pattern is not what is returned.
C13_DelimiterBeforeCookie ==
  (Parsed /\ Includes(arg, Delim) /\ Includes(arg, CookieKey)) =>
    /\ result.pattern = "delimiter"
    /\ result.username = Trim(BeforeDelim(arg))
    /\ result.jwt_token = Trim(AfterDelim(arg))
    /\ result.cookies = SecureCookie(Trim(AfterDelim(arg)))
    /\ result.jwt_token # Trim(MatchCookie(arg, 1))

C13_Witness ==
  /\ Parsed
  /\ arg = << "u" >> \o Delim \o CookieKey \o CookieValue(Jwt("<named>"))
             \o << ";", " ", "sessionid", "=", "x" >>
  /\ result.username = << "u" >>
  /\ result.jwt_token = Tail(Tail(Tail(Tail(Tail(arg)))))

\* ------------------------------------------------------------------------
\* Further properties of validateJWTToken (specification SpecDecoder)
\* ------------------------------------------------------------------------
\* C14: for every input string the decoder returns a result (it raises
\* nothing and does not return null), and a result with is_valid false has
\* its error field set.
C14_DecoderTotalWithError ==
  Decoded =>
    /\ ~result.null
    /\ ~result.is_valid => result.error # NoError

C14_Witness ==
  /\ Decoded /\ arg = Jwt("<null>")
  /\ ~result.is_valid /\ result.error = "JWT payload decoding error"

\* ------------------------------------------------------------------------
\* Properties of the pre-validation guard (specification SpecGuard)
\* ------------------------------------------------------------------------
Filtered == fn = "handleCheck"

\* steamLoginSecure=, a 17-digit id, %7C%7C, a three-segment JWT starting eyJ
DocumentedCookieLine(s) ==
  \E p \in {"<valid>", "<named>"} : s = SpellLine(CookieKey \o CookieValue(Jwt(p)))

\* C15: a line in the documented cookie format passes the filter of
\* handleCheck (validateSteamToken accepts it) and enters the batch.
C15_CookieFormatPassesGuard ==
  (Filtered /\ DocumentedCookieLine(arg)) => result.isValid

\* ------------------------------------------------------------------------
\* Properties of the records' originalToken
\* ------------------------------------------------------------------------
Blank(s) == \A k \in 1..Len(s) : s[k] = " "

\* line is inner with blanks before and after, and inner has none at its ends
Stripped(inner, line) ==
  /\ inner # << >> => inner[1] # " " /\ inner[Len(inner)] # " "
  /\ \E a \in 0..Len(line) :
       /\ a + Len(inner) <= Len(line)
       /\ Blank(SubSeq(line, 1, a))
       /\ SubSeq(line, a + 1, a + Len(inner)) = inner
       /\ Blank(SubSeq(line, a + Len(inner) + 1, Len(line)))

\* C16 as claimed: every record's originalToken is its input line character
\* for character, leading and trailing white space included, for processed
\* records and for Error records.
C16_OriginalTokenVerbatim ==
  \A k \in 1..Len(accounts) : accounts[k].originalToken = tokens[k]

\* C16 as amended: every record's originalToken is its input line without the
\* line's leading and trailing white space, every other character kept, for
\* processed records and for Error records.
C16_OriginalTokenStripped ==
  \A k \in 1..Len(accounts) : Stripped(accounts[k].originalToken, tokens[k])

C16_Witness ==
  /\ Len(accounts) = 2
  /\ IsError(accounts[2]) /\ ~IsError(accounts[1])
  /\ tokens[2][1] = " " /\ tokens[2][Len(tokens[2])] = " "
  /\ Len(accounts[2].originalToken) = Len(tokens[2]) - 2
  /\ accounts[1].originalToken = tokens[1]

\* ------------------------------------------------------------------------
\* Properties of the inventory route's rate limit (specification SpecServer)
\* ------------------------------------------------------------------------
\* the requests of ip let in during the minute ending now
LetIn(ip) == Len(WithinWindow(server.passed[ip], server.now))

\* C17: the inventory endpoint lets in at most 10 requests of one client IP
\* within one minute; a further request of that IP in the minute is answered
\* 429 and the IP is blocked.
C17_TenPerMinute ==
  \A ip \in Ips :
    /\ LetIn(ip) <= 10
    /\ (server.ip = ip /\ server.status = 429) => server.rateLimitMap[ip].blocked

\* ------------------------------------------------------------------------
\* Properties of the order of the steps of the loop
\* ------------------------------------------------------------------------
\* the callback has just been called (and has returned or raised)
JustCalledBack == pc \in {"process", "aborted"}

\* the item the last callback announced is still being processed
ItemInHand == pc \in {"process", "aborted", "profile", "bans", "inventory", "build"}

\* the number of records counted in the five status counters
Folded ==
  stats.valid + stats.invalid + stats.expired + stats.account_not_found
    + stats.limited_profile

BetweenItems == pc = "loop" /\ 0 < i /\ i < Len(tokens)

\* C19: between the end of an item that is not the last and the start of the
\* next item (hence before its first lookup) the pacing delay has elapsed,
\* whether the item got a normal record or an Error record.
C19_PacedBetweenItems == BetweenItems => cur.slept

\* ------------------------------------------------------------------------
\* Properties of the classification by profile
\* ------------------------------------------------------------------------
\* the item in hand got its record from the profile step of the cascade
ReachedProfileStep ==
  /\ ItemDone /\ ~IsError(Last)
  /\ \/ ~cur.jwtValidation.null /\ cur.jwtValidation.is_valid /\ ~cur.jwtValidation.is_expired
     \/ cur.jwtValidation.null /\ cur.steamId # << >>

NamedUnknown == cur.userProfile.username = << "Unknown" >>

\* C20 as claimed: at the profile step the status is Account Not Found for
\* username "Unknown" with time_created 0, Valid for time_created > 0 or
\* another username, Limited Profile otherwise, with and without credential.
C20_ProfileRuleOnBothPaths ==
  ReachedProfileStep =>
    Last.status =
      IF NamedUnknown /\ cur.userProfile.time_created = 0 THEN "Account Not Found"
      ELSE IF cur.userProfile.time_created > 0 \/ ~NamedUnknown THEN "Valid"
      ELSE "Limited Profile"

\* C20 as amended: the same rule, except that without a credential the
\* remaining case gives Account Not Found; Limited Profile arises only with a
\* valid, unexpired credential.
C20_ProfileRulePerPath ==
  ReachedProfileStep =>
    Last.status =
      IF NamedUnknown /\ cur.userProfile.time_created = 0 THEN "Account Not Found"
      ELSE IF cur.userProfile.time_created > 0 \/ ~NamedUnknown THEN "Valid"
      ELSE IF cur.jwtValidation.null THEN "Account Not Found"
      ELSE "Limited Profile"

C20_Witness ==
  /\ ReachedProfileStep /\ cur.jwtValidation.null /\ cur.steamId = CanonId
  /\ NamedUnknown /\ cur.userProfile.time_created < 0
  /\ Last.status = "Account Not Found"
  /\ Len(accounts) = 2 /\ accounts[1].status = "Limited Profile"

\* ------------------------------------------------------------------------
\* Properties of the classification of credentials that are not valid
\* ------------------------------------------------------------------------
\* the item in hand got a record from a decoded credential that is neither
\* expired nor valid
DecodedNotValid ==
  /\ ItemDone /\ ~IsError(Last)
  /\ ~cur.jwtValidation.null
  /\ ~cur.jwtValidation.is_expired /\ ~cur.jwtValidation.is_valid

\* C21: an item whose credential was extracted and decoded, is not expired
\* and is not valid has status Invalid JWT, whatever the profile lookup gave
\* and whether or not an account id was resolved from the raw line.
C21_NotValidIsInvalidJwt == DecodedNotValid => Last.status = "Invalid JWT"

C21_Witness ==
  /\ DecodedNotValid /\ Last.status = "Invalid JWT"
  /\ cur.steamId = CanonId
  /\ hasValidProfile(cur.userProfile) /\ cur.userProfile.time_created > 0
  /\ Last.steamId = CanonId

\* ------------------------------------------------------------------------
\* Properties of the account-id repair in the decoder
\* ------------------------------------------------------------------------
\* the payload segment the decoder was given, and the sub claim it read from
\* it: the parsed object's on the JSON paths, the regex capture otherwise
ArgSegment == SegmentOf(Split(arg, << "." >>)[2])
ClaimedSub ==
  IF result.path \in {"strict", "repaired"}
  THEN (IF result.path = "strict" THEN ArgSegment.strict.sub ELSE ArgSegment.fixed.sub)
  ELSE IF result.path = "regex" THEN ArgSegment.subMatch
  ELSE NONE

\* at least 10 digits after stripping, not starting with 7656119
NeedsPrefix(sub) ==
  /\ sub # NONE
  /\ Len(StripNonDigits(sub)) >= 10
  /\ ~StartsWith(StripNonDigits(sub), SteamPrefix)
Reprefixed(sub) == SteamPrefix \o SliceLast(StripNonDigits(sub), 10)

\* C22 as stated: a sub claim that needs the prefix is re-prefixed into
\* steam_id whichever path produced the claims (strict JSON, repaired JSON or
\* the regex-extraction fallback).
C22_ReprefixedOnEveryPath ==
  (Decoded /\ NeedsPrefix(ClaimedSub)) => result.steam_id = Reprefixed(ClaimedSub)

\* C22: a sub claim that needs the prefix is re-prefixed into steam_id only
\* when the claims came from the regex-extraction fallback; when the payload
\* parsed as JSON, strictly or after repair, the stripped claim is tested as
\* it is, steam_id stays undefined and the credential is not valid.
C22_ReprefixedOnRegexPathOnly ==
  (Decoded /\ NeedsPrefix(ClaimedSub)) =>
     IF result.path = "regex"
     THEN result.steam_id = Reprefixed(ClaimedSub)
     ELSE result.steam_id = NONE /\ ~result.is_valid
          /\ result.error = "No valid Steam ID found in token"

C22_Witness ==
  /\ Decoded /\ arg = Jwt("<fixednoise>")
  /\ result.path = "repaired" /\ NeedsPrefix(ClaimedSub)
  /\ result.steam_id = NONE /\ ~result.is_expired

\* the exp claim the decoder read (NoNum when the payload carries none)
ClaimedExp ==
  IF result.path = "strict" THEN ArgSegment.strict.exp
  ELSE IF result.path = "repaired" THEN ArgSegment.fixed.exp
  ELSE IF result.path = "regex" THEN ArgSegment.expMatch
  ELSE NoNum

\* C23: for every decoded credential carrying an exp claim (any non-negative
\* integer, 0 included) is_expired is true exactly when the clock, in Unix
\* seconds, is greater than exp; without an exp claim is_expired is false.
C23_ExpiredIffClockPastExp ==
  (Decoded /\ result.path # "none") =>
     IF ClaimedExp # NoNum
     THEN result.is_expired = (clock > ClaimedExp)
     ELSE ~result.is_expired

\* ------------------------------------------------------------------------
\* Further properties of parseTokenFormat (specification SpecParser)
\* ------------------------------------------------------------------------
\* the whole text after the first delimiter
RestAfterDelim(line) ==
  SubSeq(line, IndexFrom(line, Delim, 1) + Len(Delim), Len(line))

\* C24: a line containing "----" is split in exactly two at the first
\* occurrence: the username is the trimmed text before it, the credential is
\* the whole trimmed text after it, later occurrences of "----" included.
C24_SplitAtFirstDelimiterOnly ==
  (Parsed /\ Includes(arg, Delim)) =>
    /\ result.pattern = "delimiter"
    /\ result.username = Trim(BeforeDelim(arg))
    /\ result.jwt_token = Trim(RestAfterDelim(arg))

\* the fallback's part of the line: key and value around the first "="
KeyBeforeEq(part) == Trim(SubSeq(part, 1, IndexFrom(part, << "=" >>, 1) - 1))
ValueAfterEq(part) == Trim(SubSeq(part, IndexFrom(part, << "=" >>, 1) + 1, Len(part)))
CookieParts(line) == Split(Trim(line), << ";" >>)
HasEq(part) == Includes(Trim(part), << "=" >>)

\* the last part of the line with the given key (later parts overwrite)
LastWithKey(line, key) ==
  LET ks == { k \in 1..Len(CookieParts(line)) :
                HasEq(CookieParts(line)[k]) /\ KeyBeforeEq(Trim(CookieParts(line)[k])) = key }
  IN Trim(CookieParts(line)[CHOOSE k \in ks : \A j \in ks : j <= k])

\* C25: in the cookie fallback each ";"-separated part containing "=" is cut
\* at its first "=" only: the key is the trimmed text before it, the value the
\* whole trimmed text after it with any further "=", and parts without "="
\* add nothing to the map.
C25_CookieCutAtFirstEqualsOnly ==
  (Parsed /\ result.pattern = "fallback" /\ arg # << >>) =>
    /\ DOMAIN result.cookies =
         { KeyBeforeEq(Trim(CookieParts(arg)[k])) :
             k \in { j \in 1..Len(CookieParts(arg)) : HasEq(CookieParts(arg)[j]) } }
    /\ \A key \in DOMAIN result.cookies :
         result.cookies[key] = ValueAfterEq(LastWithKey(arg, key))

\* ------------------------------------------------------------------------
\* Properties of the inventory step of processToken (specification Spec)
\* ------------------------------------------------------------------------
\* a non-empty account id that is none of the two sentinel words
IdResolved(steamId) ==
  steamId # << >> /\ steamId # << "Error" >> /\ steamId # << "Unknown" >>

\* C26: getInventoryInfo is called for an item only if checkInventory is set
\* and a non-empty, non-sentinel account id was resolved for it; otherwise no
\* inventory request is made and the record's inventory is undefined.
C26_InventoryOnlyWhenWanted ==
  /\ cur.asked => (checkInventory /\ IdResolved(cur.steamId))
  /\ (ItemDone /\ ~(checkInventory /\ IdResolved(cur.steamId))) =>
        (~cur.asked /\ Last.inventory = UndefinedInventory)
  /\ (ItemDone /\ ~IsError(Last) /\ checkInventory /\ IdResolved(cur.steamId)) =>
        (cur.asked /\ Last.inventory # UndefinedInventory)

C26_Witness ==
  /\ ItemDone /\ checkInventory /\ Len(accounts) = 2
  /\ accounts[1].inventory \in InventoryBodies
  /\ cur.steamId = << >> /\ ~cur.asked
  /\ Last.inventory = UndefinedInventory /\ ~IsError(Last)

\* ------------------------------------------------------------------------
\* Properties of the profile step for non-negative creation times
\* ------------------------------------------------------------------------
\* the item in hand reached the profile step with a creation time >= 0
DatedProfileStep == ReachedProfileStep /\ cur.userProfile.time_created >= 0

\* C27: for a profile whose time_created is a non-negative integer exactly one
\* of "has a real profile" and "profile not found" holds, so an item reaching
\* the profile step is Valid or Account Not Found, never Limited Profile, and
\* pushing its record leaves stats.limited_profile as it was.
C27_NoLimitedProfileWhenDated ==
  /\ [](DatedProfileStep =>
          /\ hasValidProfile(cur.userProfile) # profileNotFound(cur.userProfile)
          /\ Last.status = IF profileNotFound(cur.userProfile)
                           THEN "Account Not Found" ELSE "Valid")
  /\ [][(pc = "build" /\ DatedProfileStep') =>
          stats'.limited_profile = stats.limited_profile]_vars

C27_Witness ==
  /\ DatedProfileStep
  /\ cur.userProfile.time_created = 0 /\ cur.userProfile.username = << "alice" >>
  /\ Last.status = "Valid" /\ stats.limited_profile = 0
  /\ Len(accounts) = 2 /\ accounts[1].status = "Account Not Found"

\* the decoder took the regex-extraction fallback and captured a sub claim
RegexSub == Decoded /\ result.path = "regex" /\ ArgSegment.subMatch # NONE

\* C28: in the regex-extraction fallback a sub claim with at least 10 digits
\* after stripping always yields a steam_id of exactly 17 digits starting with
\* 7656119 (is_valid unless expired); one with fewer digits yields none.
C28_RegexSubAlwaysCanonical ==
  RegexSub =>
    IF Len(StripNonDigits(ArgSegment.subMatch)) >= 10
    THEN /\ result.steam_id # NONE
         /\ Len(result.steam_id) = 17
         /\ SubSeq(result.steam_id, 1, 7) = SteamPrefix
         /\ \A k \in 1..17 : IsDigit(result.steam_id[k])
         /\ result.is_valid = ~result.is_expired
    ELSE result.steam_id = NONE /\ ~result.is_valid

C28_Witness ==
  /\ RegexSub /\ arg = Jwt("<rxprefix>")
  /\ result.steam_id = Prefix10 \o << "0","0","0","0","0","0","0" >>
  /\ result.is_valid

\* ------------------------------------------------------------------------
\* The guard and the parser on the same line (specification SpecGuard)
\* ------------------------------------------------------------------------
\* the guard let the line in as a bare JWT: three non-empty base64url segments
\* starting with eyJ, and not the username----JWT form
AcceptedBare ==
  /\ Filtered /\ result.isValid
  /\ jwtRegex(result.sanitized) /\ ~usernameJwtRegex(result.sanitized)

\* C29: for every line the guard accepts in its bare-JWT form the parser
\* returns the whole line as the credential and takes no username from the
\* line (only extractUsernameFromJWT may name it): nothing is cut off.
C29_BareJwtParsedWhole ==
  AcceptedBare =>
    /\ result.tokenInfo.pattern = "bare"
    /\ result.tokenInfo.jwt_token = result.sanitized
    /\ result.tokenInfo.username = extractUsernameFromJWT(result.sanitized)

\* ------------------------------------------------------------------------
\* Properties of a block of the rate limiter (specification SpecLimiter)
\* ------------------------------------------------------------------------
\* the entry a request leaves when it starts a new window at time now
FreshWindow(now) ==
  [present |-> TRUE, count |-> 1, resetTime |-> now + windowMs, blocked |-> FALSE]

\* C30: once a request of an IP was refused for exceeding the limit at time
\* t, every request of that IP at a time strictly before t + blockDuration is
\* refused and leaves the end of the block as it was, and the first request
\* at a time strictly after t + blockDuration is let in and starts a new
\* window with count 1.
C30_BlockLastsBlockDuration ==
  [][server'.now = server.now =>
       \A t \in server.limited :
         /\ server.now < t + blockDuration =>
              /\ server'.status = 429
              /\ server'.rateLimitMap[BusyIp].resetTime = server.rateLimitMap[BusyIp].resetTime
         /\ server.now > t + blockDuration =>
              /\ server'.status = 200
              /\ server'.rateLimitMap[BusyIp] = FreshWindow(server.now)]_vars

====
